---- MODULE Spec2Model ----
(***************************************************************************)
(* A model of the two scalar codecs of github-types: Oid (src/oid.rs) and  *)
(* DateTime (src/datetime.rs).  Text is a sequence of Unicode code points, *)
(* a byte buffer a sequence of 0..255, a 64-bit integer its 8 bytes.       *)
(***************************************************************************)
EXTENDS Integers, Sequences, FiniteSets, TLC

VARIABLES input, human, val, dec, hint, out, enc, back, other, oval, res, calls

vars == <<input, human, val, dec, hint, out, enc, back, other, oval, res, calls>>

(***************************************************************************)
(* Bounds of the explored inputs.                                          *)
(***************************************************************************)
\* lengths 0..MaxShort of short strings and buffers
MaxShort == 3
\* lengths within Slack of the exact length are explored around it
Slack == 2

\* pub struct Oid([u8; 20])
OidLen == 20

HexLen == 2 * OidLen

(***************************************************************************)
(* Characters, by code point.                                              *)
(***************************************************************************)
\* '0' '4' '9' 'A' 'F' 'a' 'b' 'f'
HexSample == {48, 52, 57, 65, 70, 97, 98, 102}
\* '/' ':' '@' 'G' '`' 'g' 'z' and the two-byte U+00E9
NonHexSample == {47, 58, 64, 71, 96, 103, 122, 233}
Alphabet == HexSample \cup NonHexSample
ByteSample == {0, 1, 75, 127, 128, 255}

\* str::as_bytes: the UTF-8 encoding of one code point
Utf8Char(c) ==
    IF c < 128 THEN <<c>>
    ELSE IF c < 2048 THEN <<192 + (c \div 64), 128 + (c % 64)>>
    ELSE IF c < 65536
         THEN <<224 + (c \div 4096), 128 + ((c \div 64) % 64), 128 + (c % 64)>>
         ELSE <<240 + (c \div 262144), 128 + ((c \div 4096) % 64),
                128 + ((c \div 64) % 64), 128 + (c % 64)>>

RECURSIVE Utf8(_)
Utf8(s) == IF s = <<>> THEN <<>> ELSE Utf8Char(Head(s)) \o Utf8(Tail(s))

(***************************************************************************)
(* Values and errors.                                                      *)
(***************************************************************************)
NoTime == [year |-> 0, ordinal |-> 0, secs |-> 0, frac |-> 0]
\* a 64-bit integer: its sign and its magnitude, 8 bytes, most significant first
Int64(neg, mag) == [neg |-> neg, mag |-> mag]
NoInt == Int64(FALSE, <<>>)
NoErr == [kind |-> "none", n |-> 0, exp |-> "", bits |-> NoInt]
NoVal == [tag |-> "none", oid |-> <<>>, time |-> NoTime, err |-> NoErr]
OkOid(b) == [tag |-> "oid", oid |-> b, time |-> NoTime, err |-> NoErr]
OkTime(t) == [tag |-> "time", oid |-> <<>>, time |-> t, err |-> NoErr]
Fail(e) == [tag |-> "err", oid |-> <<>>, time |-> NoTime, err |-> e]

\* Oid::from_hex maps every decoding error to ()
UnitErr == [kind |-> "unit", n |-> 0, exp |-> "", bits |-> NoInt]
\* de::Error::invalid_length(len, &exp)
InvalidLength(len, exp) == [kind |-> "invalid_length", n |-> len, exp |-> exp, bits |-> NoInt]
\* de::Error::invalid_value(Unexpected::Char(c), &exp)
InvalidChar(c, exp) == [kind |-> "invalid_char", n |-> c, exp |-> exp, bits |-> NoInt]
\* Visitor's default visit_*: de::Error::invalid_type(unexpected, &self)
InvalidType(exp) == [kind |-> "invalid_type", n |-> 0, exp |-> exp, bits |-> NoInt]
\* de::Error::custom(message); the message's parts are kept apart
Custom(msg, v) == [kind |-> "custom", n |-> 0, exp |-> msg, bits |-> v]

NoWire == [shape |-> "none", text |-> <<>>, bytes |-> <<>>, bits |-> NoInt, entries |-> <<>>]
StrWire(s) == [shape |-> "str", text |-> s, bytes |-> <<>>, bits |-> NoInt, entries |-> <<>>]
BytesWire(b) ==
    [shape |-> "bytes", text |-> <<>>, bytes |-> b, bits |-> NoInt, entries |-> <<>>]
I64Wire(v) == [shape |-> "i64", text |-> <<>>, bytes |-> <<>>, bits |-> v, entries |-> <<>>]
U64Wire(v) == [shape |-> "u64", text |-> <<>>, bytes |-> <<>>, bits |-> v, entries |-> <<>>]
\* one entry of a map on the wire, or one element of a sequence (its key "")
Entry(k, w) == [key |-> k, value |-> w]
\* a map of keys to values, and a sequence of values, on the wire
MapWire(es) == [shape |-> "map", text |-> <<>>, bytes |-> <<>>, bits |-> NoInt, entries |-> es]
SeqWire(ws) ==
    [shape |-> "seq", text |-> <<>>, bytes |-> <<>>, bits |-> NoInt,
     entries |-> [i \in 1..Len(ws) |-> Entry("", ws[i])]]

\* no second value, no composite result and no call in flight
NoRes ==
    [tag |-> "none", ord |-> "", eq |-> FALSE, hash |-> FALSE,
     body |-> <<>>, err |-> NoErr]
\* the outcome of comparing two values: cmp, == and whether both feed their
\* Hasher the same
Compared(ord, eq, hash) ==
    [tag |-> "cmp", ord |-> ord, eq |-> eq, hash |-> hash,
     body |-> <<>>, err |-> NoErr]

(***************************************************************************)
(* The hex crate, as oid.rs uses it.                                       *)
(***************************************************************************)
\* hex::val with the +10 of the lowercase digits forgotten
HexValLowerFromZero(b) ==
    IF b >= 65 /\ b <= 70 THEN b - 65 + 10
    ELSE IF b >= 97 /\ b <= 102 THEN b - 97
    ELSE IF b >= 48 /\ b <= 57 THEN b - 48
    ELSE -1

\* hex::val with the letter ranges one too wide
HexValThroughG(b) ==
    IF b >= 65 /\ b <= 71 THEN b - 65 + 10
    ELSE IF b >= 97 /\ b <= 103 THEN b - 97 + 10
    ELSE IF b >= 48 /\ b <= 57 THEN b - 48
    ELSE -1

\* hex::val: the value of one hex digit given as a byte, -1 for any other byte
HexVal(b) ==
    IF b >= 65 /\ b <= 70 THEN b - 65 + 10
    ELSE IF b >= 97 /\ b <= 102 THEN b - 97 + 10
    ELSE IF b >= 48 /\ b <= 57 THEN b - 48
    ELSE -1

\* the index (from 1) of the first byte that is no hex digit, 0 if there is none
FirstBad(data) ==
    IF \E i \in 1..Len(data) : HexVal(data[i]) < 0
    THEN CHOOSE i \in 1..Len(data) :
            /\ HexVal(data[i]) < 0
            /\ \A j \in 1..(i - 1) : HexVal(data[j]) >= 0
    ELSE 0

\* <[u8; 20]>::from_hex(s): the length checks come first, then the digits in order
FromHexArray(s) ==
    LET data == Utf8(s)
        bad == FirstBad(data)
    IN  IF Len(data) % 2 # 0 THEN [ok |-> FALSE, e |-> "OddLength", c |-> 0, bytes |-> <<>>]
        ELSE IF Len(data) \div 2 # OidLen
             THEN [ok |-> FALSE, e |-> "InvalidStringLength", c |-> 0, bytes |-> <<>>]
        ELSE IF bad # 0
             THEN [ok |-> FALSE, e |-> "InvalidHexCharacter", c |-> data[bad], bytes |-> <<>>]
        ELSE [ok |-> TRUE, e |-> "", c |-> 0,
              bytes |-> [i \in 1..OidLen |->
                            HexVal(data[2 * i - 1]) * 16 + HexVal(data[2 * i])]]

\* HEX_CHARS_UPPER holding the lowercase letters
UpperDigitLowercase(n) == IF n < 10 THEN 48 + n ELSE 97 + (n - 10)

\* HEX_CHARS_LOWER[n], HEX_CHARS_UPPER[n]
LowerDigit(n) == IF n < 10 THEN 48 + n ELSE 97 + (n - 10)
UpperDigit(n) == IF n < 10 THEN 48 + n ELSE 65 + (n - 10)

\* write_hex with the low nibble written first
WriteHexLowNibbleFirst(b) ==
    [i \in 1..(2 * Len(b)) |->
        IF i % 2 = 1 THEN LowerDigit(b[(i + 1) \div 2] % 16)
                     ELSE LowerDigit(b[i \div 2] \div 16)]

\* ToHex::write_hex: two lowercase digits per byte, high nibble first
WriteHex(b) ==
    [i \in 1..(2 * Len(b)) |->
        IF i % 2 = 1 THEN LowerDigit(b[(i + 1) \div 2] \div 16)
                     ELSE LowerDigit(b[i \div 2] % 16)]

\* ToHex::write_hex_upper
WriteHexUpper(b) ==
    [i \in 1..(2 * Len(b)) |->
        IF i % 2 = 1 THEN UpperDigit(b[(i + 1) \div 2] \div 16)
                     ELSE UpperDigit(b[i \div 2] % 16)]

(***************************************************************************)
(* Oid.                                                                    *)
(***************************************************************************)
\* from_hex that takes the lowercase digits alone
OidFromHexLowercaseOnly(s) ==
    IF FromHexArray(s).ok /\ WriteHex(FromHexArray(s).bytes) = Utf8(s)
    THEN OkOid(FromHexArray(s).bytes)
    ELSE Fail(UnitErr)

\* Oid::from_hex
OidFromHex(s) ==
    LET r == FromHexArray(s)
    IN  IF r.ok THEN OkOid(r.bytes) ELSE Fail(UnitErr)

\* visit_str reporting the expected length in place of the actual one
OidVisitStrReportsExpected(v) ==
    LET r == FromHexArray(v)
    IN  IF r.ok THEN OkOid(r.bytes)
        ELSE IF r.e = "InvalidHexCharacter"
             THEN Fail(InvalidChar(r.c, "string with only hexadecimal characters"))
        ELSE IF r.e = "InvalidStringLength"
             THEN Fail(InvalidLength(HexLen, "hex string with a valid length"))
        ELSE Fail(InvalidLength(HexLen, "hex string with an even length"))

\* OidVisitor::visit_str
OidVisitStr(v) ==
    LET r == FromHexArray(v)
    IN  IF r.ok THEN OkOid(r.bytes)
        ELSE IF r.e = "InvalidHexCharacter"
             THEN Fail(InvalidChar(r.c, "string with only hexadecimal characters"))
        ELSE IF r.e = "InvalidStringLength"
             THEN Fail(InvalidLength(Len(Utf8(v)), "hex string with a valid length"))
        ELSE Fail(InvalidLength(Len(Utf8(v)), "hex string with an even length"))

\* visit_bytes rejecting only the buffers that are too short
OidVisitBytesAtLeast(v) ==
    IF Len(v) < OidLen THEN Fail(InvalidLength(Len(v), "20 bytes"))
    ELSE OkOid([i \in 1..OidLen |-> v[i]])

\* OidVisitor::visit_bytes
OidVisitBytes(v) ==
    IF Len(v) # OidLen THEN Fail(InvalidLength(Len(v), "20 bytes"))
    ELSE OkOid([i \in 1..OidLen |-> v[i]])

\* what the deserializer hands OidVisitor for the value on the wire; the shapes
\* OidVisitor does not override fall to Visitor's defaults
OidVisit(w) ==
    IF w.shape = "str" THEN OidVisitStr(w.text)
    ELSE IF w.shape = "bytes" THEN OidVisitBytes(w.bytes)
    ELSE Fail(InvalidType("hex string or 20 bytes"))

\* deserialize asking for a string on every transport
OidHintAlwaysStr(h) == "str"

\* <Oid as Deserialize>::deserialize: the shape asked of the deserializer
OidHint(h) == IF h THEN "str" ELSE "bytes"

\* serialize with the transport flag ignored
OidSerializeAlwaysHex(b, h) == StrWire(WriteHex(b))

\* <Oid as Serialize>::serialize
OidSerialize(b, h) == IF h THEN StrWire(WriteHex(b)) ELSE BytesWire(b)

\* EMPTY_TREE with its last two bytes exchanged
EMPTY_TREE_Swapped ==
    <<75, 130, 93, 198, 66, 203, 110, 185, 160, 96, 229, 75,
      248, 214, 146, 136, 251, 238, 4, 73>>

\* Oid::EMPTY_TREE
EMPTY_TREE ==
    <<75, 130, 93, 198, 66, 203, 110, 185, 160, 96, 229, 75,
      248, 214, 146, 136, 251, 238, 73, 4>>

\* Oid::ZERO
ZERO == [i \in 1..OidLen |-> 0]

\* a Default written by hand that answers the empty tree
OidDefaultEmptyTree == EMPTY_TREE

\* #[derive(Default)]: <[u8; 20]>::default(), every byte u8::default()
OidDefault == [i \in 1..OidLen |-> 0]

\* the comparison of two sequences of numbers, element by element from the
\* first: <[u8; 20] as Ord>::cmp, and the cmp of a derived Ord over its fields
RECURSIVE CmpFrom(_, _, _)
CmpFrom(a, b, i) ==
    IF i > Len(a) THEN "equal"
    ELSE IF a[i] < b[i] THEN "less"
    ELSE IF a[i] > b[i] THEN "greater"
    ELSE CmpFrom(a, b, i + 1)

RECURSIVE CmpDownFrom(_, _, _)
CmpDownFrom(a, b, i) ==
    IF i = 0 THEN "equal"
    ELSE IF a[i] < b[i] THEN "less"
    ELSE IF a[i] > b[i] THEN "greater"
    ELSE CmpDownFrom(a, b, i - 1)

\* cmp reading the bytes as one little-endian number, the last byte first
OidCmpFromLast(a, b) == CmpDownFrom(a, b, Len(a))

\* #[derive(Ord, PartialOrd)]: <Oid as Ord>::cmp
OidCmp(a, b) == CmpFrom(a, b, 1)
\* #[derive(Eq, PartialEq)]: <Oid as PartialEq>::eq
OidEq(a, b) == \A i \in 1..OidLen : a[i] = b[i]
\* #[derive(Hash)]: what <Oid as Hash>::hash feeds the Hasher
OidHashFeed(a) == <<Len(a)>> \o a

(***************************************************************************)
(* 64-bit integers.  An i64 or u64 is a sign and a magnitude of 8 bytes,   *)
(* most significant first.                                                 *)
(***************************************************************************)
IntLen == 8

ZeroMag == [i \in 1..IntLen |-> 0]
IsZeroMag(m) == \A i \in 1..Len(m) : m[i] = 0

RECURSIVE DivStep(_, _, _, _, _)
DivStep(m, d, i, rem, q) ==
    IF i > Len(m) THEN [q |-> q, r |-> rem]
    ELSE LET cur == rem * 256 + m[i]
         IN  DivStep(m, d, i + 1, cur % d, Append(q, cur \div d))

\* magnitude m divided by the small number d: quotient bytes and remainder
DivSmall(m, d) == DivStep(m, d, 1, 0, <<>>)

RECURSIVE MulAddStep(_, _, _, _)
MulAddStep(m, k, i, carry) ==
    IF i = 0 THEN <<>>
    ELSE LET cur == m[i] * k + carry
         IN  Append(MulAddStep(m, k, i - 1, cur \div 256), cur % 256)

\* m * k + a on 8 bytes, for small k and a
MulAddSmall(m, k, a) == MulAddStep(m, k, Len(m), a)

\* 2^64 - m on 8 bytes, for m # 0
Neg64(m) == MulAddSmall([i \in 1..Len(m) |-> 255 - m[i]], 1, 1)

\* the magnitude as a number when it is below 2^31, else -1
SmallMag(m) ==
    IF (\A i \in 1..(IntLen - 4) : m[i] = 0) /\ m[IntLen - 3] < 128
    THEN ((m[IntLen - 3] * 256 + m[IntLen - 2]) * 256 + m[IntLen - 1]) * 256 + m[IntLen]
    ELSE -1

\* the small number n as 8 bytes
MagOf(n) == MulAddSmall(ZeroMag, 1, n)

\* v as i64, for v: u64: the same 64 bits read as two's complement
U64AsI64(v) ==
    IF v.mag[1] >= 128 THEN Int64(TRUE, Neg64(v.mag)) ELSE Int64(FALSE, v.mag)

(***************************************************************************)
(* chrono, as datetime.rs uses it.  A DateTime<Utc> is a NaiveDate (year   *)
(* and ordinal day) and a NaiveTime (seconds of the day, and frac: the     *)
(* nanoseconds, 10^9 and more within a leap second).                       *)
(***************************************************************************)
\* chrono::naive::MIN_DATE.year(), MAX_DATE.year(): i32::MIN >> 13, i32::MAX >> 13
MIN_YEAR == -262144
MAX_YEAR == 262143
I32_MAX == 2147483647
SecsPerDay == 86400
DaysPer400Years == 146097
\* the day number of 1970-01-01 counted from 0001-01-01 as day 1
EpochDayFromCE == 719163
Billion == 1000000000

\* internals::YEAR_DELTAS[i]: the leap days of the years 0..i-1 of a 400-year cycle
YearDelta(i) == ((i + 3) \div 4) - ((i + 99) \div 100) + ((i + 399) \div 400)

\* internals::cycle_to_yo
CycleToYo(cycle) ==
    LET ym == cycle \div 365
        o0 == cycle % 365
        delta == YearDelta(ym)
    IN  IF o0 < delta
        THEN [ym |-> ym - 1, ordinal |-> o0 + 365 - YearDelta(ym - 1) + 1]
        ELSE [ym |-> ym, ordinal |-> o0 - delta + 1]

\* internals::yo_to_cycle
YoToCycle(ym, ordinal) == ym * 365 + YearDelta(ym) + ordinal - 1

IsLeap(y) == (y % 4 = 0 /\ y % 100 # 0) \/ y % 400 = 0
DaysInYear(y) == IF IsLeap(y) THEN 366 ELSE 365

NoDate == [ok |-> FALSE, year |-> 0, ordinal |-> 0]

\* NaiveDate::from_of: the year must lie in MIN_YEAR..MAX_YEAR and own the ordinal
DateFromOf(year, ordinal) ==
    IF year >= MIN_YEAR /\ year <= MAX_YEAR /\ ordinal >= 1 /\ ordinal <= DaysInYear(year)
    THEN [ok |-> TRUE, year |-> year, ordinal |-> ordinal]
    ELSE NoDate

\* NaiveDate::from_num_days_from_ce_opt; day numbers within 365 of i32::MAX,
\* where days + 365 leaves i32, are out of range
DateFromDaysCE(days) ==
    IF days > I32_MAX - 365 THEN NoDate
    ELSE LET d == days + 365
             yo == CycleToYo(d % DaysPer400Years)
         IN  DateFromOf((d \div DaysPer400Years) * 400 + yo.ym, yo.ordinal)

\* from_timestamp_opt dividing toward zero where chrono divides toward minus
\* infinity
TimestampOptTruncating(v) ==
    LET dm == DivSmall(v.mag, SecsPerDay)
        q == SmallMag(dm.q)
        days == IF ~v.neg THEN q ELSE -q
        date == DateFromDaysCE(days + EpochDayFromCE)
    IN  IF q < 0 \/ q = I32_MAX THEN [ok |-> FALSE, time |-> NoTime]
        ELSE IF days > I32_MAX - EpochDayFromCE THEN [ok |-> FALSE, time |-> NoTime]
        ELSE IF ~date.ok THEN [ok |-> FALSE, time |-> NoTime]
        ELSE [ok |-> TRUE,
              time |-> [year |-> date.year, ordinal |-> date.ordinal,
                        secs |-> dm.r, frac |-> 0]]

\* NaiveDateTime::from_timestamp_opt(secs, 0) then Utc.from_utc_datetime:
\* div_mod_floor(secs, 86_400), days.to_i32(), checked_add(719_163)
TimestampOpt(v) ==
    LET dm == DivSmall(v.mag, SecsPerDay)
        q == SmallMag(dm.q)
        days == IF ~v.neg THEN q ELSE IF dm.r = 0 THEN -q ELSE -q - 1
        secs == IF ~v.neg \/ dm.r = 0 THEN dm.r ELSE SecsPerDay - dm.r
        date == DateFromDaysCE(days + EpochDayFromCE)
    IN  IF q < 0 \/ q = I32_MAX THEN [ok |-> FALSE, time |-> NoTime]
        ELSE IF days > I32_MAX - EpochDayFromCE THEN [ok |-> FALSE, time |-> NoTime]
        ELSE IF ~date.ok THEN [ok |-> FALSE, time |-> NoTime]
        ELSE [ok |-> TRUE,
              time |-> [year |-> date.year, ordinal |-> date.ordinal,
                        secs |-> secs, frac |-> 0]]

\* timestamp_opt of a zone that maps through a local calendar in which the
\* first second of a day comes twice
LocalResultThroughLocal(r) ==
    [kind |-> IF ~r.ok THEN "None" ELSE IF r.time.secs = 0 THEN "Ambiguous" ELSE "Single",
     time |-> r.time]

\* <Utc as TimeZone>::timestamp_opt: LocalResult::Single of the instant read
\* in UTC, or LocalResult::None
LocalResultOf(r) == [kind |-> IF r.ok THEN "Single" ELSE "None", time |-> r.time]

\* the arms of the match in visit_i64
MatchLocalResult(v, r) ==
    IF r.kind = "None" THEN Fail(Custom("value is not a legal timestamp: {}", v))
    ELSE IF r.kind = "Ambiguous"
         THEN Fail(Custom("value is an ambiguous timestamp: {}, could be either of {}, {}", v))
    ELSE OkTime(r.time)

\* DateTimeVisitor::visit_i64
TimeVisitI64(v) == MatchLocalResult(v, LocalResultOf(TimestampOpt(v)))

\* DateTimeVisitor::visit_u64
TimeVisitU64(v) == TimeVisitI64(U64AsI64(v))

(***************************************************************************)
(* chrono's parser, as "v.parse()" of visit_str runs it: FromStr for       *)
(* DateTime<Utc> parses a DateTime<FixedOffset> item by item and converts. *)
(***************************************************************************)
DigitChars == 48..57
IsDigit(c) == c \in DigitChars
\* char::is_whitespace
WhitespaceChars ==
    (9..13) \cup {32, 133, 160, 5760, 8232, 8233, 8239, 8287, 12288} \cup (8192..8202)
ColonOrSpaceChars == {58} \cup WhitespaceChars

\* how many leading characters of s lie in the set P
LeadCount(s, P) ==
    IF \E i \in 1..Len(s) : s[i] \notin P
    THEN (CHOOSE i \in 1..Len(s) : s[i] \notin P /\ \A j \in 1..(i - 1) : s[j] \in P) - 1
    ELSE Len(s)

Drop(s, n) == SubSeq(s, n + 1, Len(s))
\* str::trim_left
TrimLeft(s) == Drop(s, LeadCount(s, WhitespaceChars))

\* one more digit d after the number v; -1 once the number passes i32::MAX
DigitsValueStep(v, d) ==
    IF v < 0 \/ v > 214748364 \/ (v = 214748364 /\ d > 7) THEN -1 ELSE v * 10 + d

\* the value of format::scan::number: a number too large is out of range
ScanNumberValue(s, upto, v) ==
    IF v < 0 THEN [err |-> "OutOfRange", v |-> 0, n |-> 0, rest |-> s]
    ELSE [err |-> "", v |-> v, n |-> upto, rest |-> Drop(s, upto)]

\* the digits s[1..n] as a number; -1 once it passes i32::MAX
RECURSIVE DigitsValue(_, _)
DigitsValue(s, n) ==
    IF n = 0 THEN 0 ELSE DigitsValueStep(DigitsValue(s, n - 1), s[n] - 48)

\* the tail of format::scan::number: fewer than min digits is an error, and so
\* is a number that overflows
ScanNumberUpto(s, min, empty, upto) ==
    IF upto < min
    THEN [err |-> IF empty THEN "TooShort" ELSE "Invalid", v |-> 0, n |-> 0, rest |-> s]
    ELSE ScanNumberValue(s, upto, DigitsValue(s, upto))

\* format::scan::number(s, min, max); max = 0 stands for usize::MAX
ScanNumber(s, min, max) ==
    ScanNumberUpto(s, min, s = <<>>,
                   LeadCount(IF max > 0 /\ Len(s) > max THEN SubSeq(s, 1, max) ELSE s, DigitChars))

Pow10(k) == IF k = 0 THEN 1 ELSE IF k = 1 THEN 10 ELSE IF k = 2 THEN 100
    ELSE IF k = 3 THEN 1000 ELSE IF k = 4 THEN 10000 ELSE IF k = 5 THEN 100000
    ELSE IF k = 6 THEN 1000000 ELSE IF k = 7 THEN 10000000 ELSE IF k = 8 THEN 100000000
    ELSE Billion

\* the tail of format::scan::nanosecond: the digits read are scaled to
\* nanoseconds, and the digits after the ninth are skipped
ScaleNanosecond(r) ==
    IF r.err # "" THEN r
    ELSE [err |-> "", v |-> r.v * Pow10(9 - r.n), n |-> r.n,
          rest |-> Drop(r.rest, LeadCount(r.rest, DigitChars))]

\* format::scan::nanosecond
ScanNanosecond(s) == ScaleNanosecond(ScanNumber(s, 1, 9))

\* the minutes of format::scan::timezone_offset: 00 to 59
ScanOffsetMinutes(s, negative, hours, s3) ==
    IF Len(Utf8(s3)) < 2 THEN [err |-> "TooShort", v |-> 0, rest |-> s]
    ELSE IF s3[1] \in 48..53 /\ IsDigit(s3[2])
         THEN [err |-> "",
               v |-> (IF negative THEN -1 ELSE 1)
                        * (hours * 3600 + ((s3[1] - 48) * 10 + (s3[2] - 48)) * 60),
               rest |-> Drop(s3, 2)]
    ELSE IF s3[1] \in 54..57 /\ IsDigit(s3[2]) THEN [err |-> "OutOfRange", v |-> 0, rest |-> s]
    ELSE [err |-> "Invalid", v |-> 0, rest |-> s]

\* the hours of format::scan::timezone_offset: 00 to 99, then colons and spaces
ScanOffsetHours(s, negative, s1) ==
    IF Len(Utf8(s1)) < 2 THEN [err |-> "TooShort", v |-> 0, rest |-> s]
    ELSE IF ~(IsDigit(s1[1]) /\ IsDigit(s1[2])) THEN [err |-> "Invalid", v |-> 0, rest |-> s]
    ELSE ScanOffsetMinutes(s, negative, (s1[1] - 48) * 10 + (s1[2] - 48),
                           Drop(s1, 2 + LeadCount(Drop(s1, 2), ColonOrSpaceChars)))

\* format::scan::timezone_offset with colon_or_space between hours and minutes
ScanTimezoneOffset(s) ==
    IF s = <<>> THEN [err |-> "TooShort", v |-> 0, rest |-> s]
    ELSE IF s[1] \notin {43, 45} THEN [err |-> "Invalid", v |-> 0, rest |-> s]
    ELSE ScanOffsetHours(s, s[1] = 45, Drop(s, 1))

\* format::scan::timezone_offset_zulu: "Z", "z", "UTC" in any case, or an offset
ScanTimezoneOffsetZulu(s) ==
    IF s # <<>> /\ s[1] \in {90, 122} THEN [err |-> "", v |-> 0, rest |-> Drop(s, 1)]
    ELSE IF s # <<>> /\ s[1] \in {85, 117}
         THEN IF Len(Utf8(s)) >= 3 /\ Len(s) >= 3 /\ s[2] \in {84, 116} /\ s[3] \in {67, 99}
              THEN [err |-> "", v |-> 0, rest |-> Drop(s, 3)]
              ELSE [err |-> "Invalid", v |-> 0, rest |-> s]
    ELSE ScanTimezoneOffset(s)

NoFields ==
    [year |-> 0, month |-> 0, day |-> 0, hour |-> 0, minute |-> 0, second |-> 0,
     nano |-> -1, offset |-> 0]

\* the items of <DateTime<FixedOffset> as FromStr>::from_str
SpaceItem == [k |-> "space", x |-> "", c |-> 0]
LiteralItem(c) == [k |-> "literal", x |-> "", c |-> c]
NumericItem(x) == [k |-> "numeric", x |-> x, c |-> 0]
NanosecondItem == [k |-> "nanosecond", x |-> "", c |-> 0]
TimezoneItem == [k |-> "timezone", x |-> "", c |-> 0]
ITEMS ==
    << SpaceItem, NumericItem("year"), SpaceItem, LiteralItem(45),
       SpaceItem, NumericItem("month"), SpaceItem, LiteralItem(45),
       SpaceItem, NumericItem("day"), SpaceItem, LiteralItem(84),
       SpaceItem, NumericItem("hour"), SpaceItem, LiteralItem(58),
       SpaceItem, NumericItem("minute"), SpaceItem, LiteralItem(58),
       SpaceItem, NumericItem("second"), NanosecondItem,
       SpaceItem, TimezoneItem, SpaceItem >>

\* Parsed::set_*: the scanned number r, negated under a minus sign, is stored
\* in field x
SetField(st, x, negative, r) ==
    IF r.err # "" THEN [st EXCEPT !.err = r.err]
    ELSE [st EXCEPT !.s = r.rest, !.f = [st.f EXCEPT ![x] = IF negative THEN -r.v ELSE r.v]]

\* Item::Numeric on the trimmed input s: the year is signed and four digits wide
\* unless a sign leads it; every other number has at most two digits
ParseNumericAt(st, x, s) ==
    IF x = "year" /\ s # <<>> /\ s[1] \in {43, 45}
    THEN SetField(st, x, s[1] = 45, ScanNumber(Drop(s, 1), 1, 0))
    ELSE SetField(st, x, FALSE, ScanNumber(s, 1, IF x = "year" THEN 4 ELSE 2))

\* Item::Numeric
ParseNumeric(st, x) == ParseNumericAt(st, x, TrimLeft(st.s))

\* one item of format::parse::parse
ParseItem(st, item) ==
    IF item.k = "space" THEN [st EXCEPT !.s = TrimLeft(st.s)]
    ELSE IF item.k = "literal"
         THEN IF st.s = <<>> THEN [st EXCEPT !.err = "TooShort"]
              ELSE IF st.s[1] # item.c THEN [st EXCEPT !.err = "Invalid"]
              ELSE [st EXCEPT !.s = Drop(st.s, 1)]
    ELSE IF item.k = "numeric" THEN ParseNumeric(st, item.x)
    ELSE IF item.k = "nanosecond"
         THEN IF st.s # <<>> /\ st.s[1] = 46
              THEN SetField(st, "nano", FALSE, ScanNanosecond(Drop(st.s, 1)))
              ELSE st
    ELSE SetField(st, "offset", FALSE, ScanTimezoneOffsetZulu(TrimLeft(st.s)))

RECURSIVE ParseItems(_, _, _)
ParseItems(st, items, i) ==
    IF i > Len(items) \/ st.err # "" THEN st
    ELSE ParseItems(ParseItem(st, items[i]), items, i + 1)

\* the end of format::parse::parse: nothing may be left over
ParseEnd(st) == IF st.err = "" /\ st.s # <<>> THEN [st EXCEPT !.err = "TooLong"] ELSE st

\* format::parse::parse
Parse(s) == ParseEnd(ParseItems([s |-> s, err |-> "", f |-> NoFields], ITEMS, 1))

DaysInMonth(y, m) ==
    IF m = 2 THEN (IF IsLeap(y) THEN 29 ELSE 28)
    ELSE IF m \in {4, 6, 9, 11} THEN 30 ELSE 31

RECURSIVE DaysBeforeMonth(_, _)
DaysBeforeMonth(y, m) == IF m <= 1 THEN 0 ELSE DaysBeforeMonth(y, m - 1) + DaysInMonth(y, m - 1)

\* NaiveDate::from_ymd_opt
DateFromYmd(y, m, d) ==
    IF m >= 1 /\ m <= 12 /\ d >= 1 /\ d <= DaysInMonth(y, m)
    THEN DateFromOf(y, DaysBeforeMonth(y, m) + d)
    ELSE NoDate

\* the tail of NaiveDate::checked_add_signed: the year and ordinal of a day of
\* the 400-year cycle
DateOfCycle(yearDiv400, cycleDiv, yo) == DateFromOf((yearDiv400 + cycleDiv) * 400 + yo.ym, yo.ordinal)

\* NaiveDate::checked_add_signed, for a whole number of days
DateAddCycle(year, cycle) ==
    DateOfCycle(year \div 400, cycle \div DaysPer400Years, CycleToYo(cycle % DaysPer400Years))

DateAddDays(year, ordinal, days) == DateAddCycle(year, YoToCycle(year % 400, ordinal) + days)

\* DateTime::from_utc(local - offset): the subtraction panics when it leaves the
\* dates chrono can hold
UtcResult(moved, secs, frac) ==
    IF ~moved.ok THEN [err |-> "panic", time |-> NoTime]
    ELSE [err |-> "",
          time |-> [year |-> moved.year, ordinal |-> moved.ordinal, secs |-> secs, frac |-> frac]]

\* FixedOffset::east_opt and from_local_datetime: utc is the local second of the
\* day less the offset
LocalToUtc(date, utc, frac) ==
    UtcResult(DateAddDays(date.year, date.ordinal, utc \div SecsPerDay), utc % SecsPerDay, frac)

\* to_datetime keeping the local time of day, the offset forgotten
FieldsToUtcLocal(f, date) ==
    IF ~date.ok \/ f.hour > 23 \/ f.minute > 59 \/ f.second > 60
    THEN [err |-> "OutOfRange", time |-> NoTime]
    ELSE IF f.offset <= -SecsPerDay \/ f.offset >= SecsPerDay
         THEN [err |-> "OutOfRange", time |-> NoTime]
    ELSE LocalToUtc(date,
                    f.hour * 3600 + f.minute * 60
                        + (IF f.second = 60 THEN 59 ELSE f.second),
                    (IF f.second = 60 THEN Billion ELSE 0) + (IF f.nano < 0 THEN 0 ELSE f.nano))

\* Parsed::to_naive_time: a second of 60 is a leap second, held as second 59
\* and a fraction of 10^9 and more
FieldsToUtc(f, date) ==
    IF ~date.ok \/ f.hour > 23 \/ f.minute > 59 \/ f.second > 60
    THEN [err |-> "OutOfRange", time |-> NoTime]
    ELSE IF f.offset <= -SecsPerDay \/ f.offset >= SecsPerDay
         THEN [err |-> "OutOfRange", time |-> NoTime]
    ELSE LocalToUtc(date,
                    f.hour * 3600 + f.minute * 60
                        + (IF f.second = 60 THEN 59 ELSE f.second) - f.offset,
                    (IF f.second = 60 THEN Billion ELSE 0) + (IF f.nano < 0 THEN 0 ELSE f.nano))

\* Parsed::to_datetime and with_timezone(&Utc)
ToDateTimeUtc(f) == FieldsToUtc(f, DateFromYmd(f.year, f.month, f.day))

\* <ParseError as Display>::fmt
ParseErrorMessage(e) ==
    IF e = "OutOfRange" THEN "input is out of range"
    ELSE IF e = "Invalid" THEN "input contains invalid characters"
    ELSE IF e = "TooShort" THEN "premature end of input"
    ELSE IF e = "TooLong" THEN "trailing input"
    ELSE "panic"

\* the tail of from_str: parsed.to_datetime() once parse succeeded
ParsedToUtc(st) == IF st.err # "" THEN [err |-> st.err, time |-> NoTime] ELSE ToDateTimeUtc(st.f)

\* <DateTime<Utc> as FromStr>::from_str
ParseDateTimeUtc(s) == ParsedToUtc(Parse(s))

\* visit_str's Ok(DateTime(..)) and map_err(|e| E::custom(format!("{}", e)))
TimeStrResult(r) ==
    IF r.err = "" THEN OkTime(r.time)
    ELSE IF r.err = "panic"
         THEN Fail([kind |-> "panic", n |-> 0, exp |-> "NaiveDateTime + Duration overflowed",
                    bits |-> NoInt])
    ELSE Fail(Custom(ParseErrorMessage(r.err), NoInt))

\* DateTimeVisitor::visit_str
TimeVisitStr(v) == TimeStrResult(ParseDateTimeUtc(v))

(***************************************************************************)
(* chrono's formatting of a DateTime<Utc>.                                 *)
(***************************************************************************)
\* the decimal digits of n >= 0, at least w of them ({:0w})
RECURSIVE Digits(_, _)
Digits(n, w) ==
    IF n < 10 /\ w <= 1 THEN <<48 + n>>
    ELSE Append(Digits(n \div 10, w - 1), 48 + (n % 10))

\* NaiveDate::mdf: the month of an ordinal day
RECURSIVE MonthOf(_, _, _)
MonthOf(y, ordinal, m) ==
    IF ordinal <= DaysBeforeMonth(y, m + 1) THEN m ELSE MonthOf(y, ordinal, m + 1)

\* <NaiveDate as Debug>::fmt: {:04}-{:02}-{:02}, a year outside 0..9999 as {:+05}
FmtDate(year, ordinal) ==
    LET m == MonthOf(year, ordinal, 1)
        d == ordinal - DaysBeforeMonth(year, m)
        y == IF year >= 0 /\ year <= 9999 THEN Digits(year, 4)
             ELSE IF year < 0 THEN <<45>> \o Digits(-year, 4)
             ELSE <<43>> \o Digits(year, 4)
    IN  y \o <<45>> \o Digits(m, 2) \o <<45>> \o Digits(d, 2)

\* the time of day written without its fraction
FmtTimeWholeSeconds(secs, frac) ==
    Digits(secs \div 3600, 2) \o <<58>> \o Digits((secs \div 60) % 60, 2)
        \o <<58>> \o Digits((secs % 60) + (IF frac >= Billion THEN 1 ELSE 0), 2)

\* <NaiveTime as Debug>::fmt: a leap second prints as :60; the fraction as 3, 6
\* or 9 digits
FmtTime(secs, frac) ==
    LET sec == (secs % 60) + (IF frac >= Billion THEN 1 ELSE 0)
        nano == IF frac >= Billion THEN frac - Billion ELSE frac
        hms == Digits(secs \div 3600, 2) \o <<58>> \o Digits((secs \div 60) % 60, 2)
               \o <<58>> \o Digits(sec, 2)
    IN  IF nano = 0 THEN hms
        ELSE IF nano % 1000000 = 0 THEN hms \o <<46>> \o Digits(nano \div 1000000, 3)
        ELSE IF nano % 1000 = 0 THEN hms \o <<46>> \o Digits(nano \div 1000, 6)
        ELSE hms \o <<46>> \o Digits(nano, 9)

\* Debug written with the date and the time apart, as Display writes them
TimeDebugSpaced(t) ==
    FmtDate(t.year, t.ordinal) \o <<32>> \o FmtTime(t.secs, t.frac) \o <<32, 85, 84, 67>>

\* <DateTime as fmt::Debug>::fmt: chrono's Debug, "{:?}T{:?}" and "Z" for Utc
TimeDebug(t) == FmtDate(t.year, t.ordinal) \o <<84>> \o FmtTime(t.secs, t.frac) \o <<90>>

\* <DateTime as fmt::Display>::fmt: chrono's Display, "{} {}" and " UTC"
TimeDisplay(t) ==
    FmtDate(t.year, t.ordinal) \o <<32>> \o FmtTime(t.secs, t.frac) \o <<32, 85, 84, 67>>

(***************************************************************************)
(* DateTime.                                                               *)
(***************************************************************************)
\* the parts of a DateTime<Utc> in the order its comparison reads them: the
\* NaiveDate (year, then ordinal) and the NaiveTime (secs, then frac)
TimeParts(t) == <<t.year, t.ordinal, t.secs, t.frac>>
\* #[derive(Ord, PartialOrd)]: <chrono::DateTime<Utc> as Ord>::cmp
TimeCmp(a, b) == CmpFrom(TimeParts(a), TimeParts(b), 1)
\* #[derive(Eq, PartialEq)]: <chrono::DateTime<Utc> as PartialEq>::eq
TimeEq(a, b) == TimeParts(a) = TimeParts(b)
\* #[derive(Hash)]: what <chrono::DateTime<Utc> as Hash>::hash feeds the Hasher
TimeHashFeed(t) == TimeParts(t)

\* what the deserializer hands DateTimeVisitor for the value on the wire; the
\* shapes DateTimeVisitor does not override fall to Visitor's defaults
TimeVisit(w) ==
    IF w.shape = "str" THEN TimeVisitStr(w.text)
    ELSE IF w.shape = "i64" THEN TimeVisitI64(w.bits)
    ELSE IF w.shape = "u64" THEN TimeVisitU64(w.bits)
    ELSE Fail(InvalidType("date time string or seconds since unix epoch"))

\* deserialize asking for any shape on every transport
TimeHintAlwaysAny(h) == "any"

\* <DateTime as Deserialize>::deserialize: the shape asked of the deserializer
TimeHint(h) == IF h THEN "any" ELSE "i64"

(***************************************************************************)
(* The inputs explored.                                                    *)
(***************************************************************************)
Cyc(seed, n) == [i \in 1..n |-> seed[((i - 1) % Len(seed)) + 1]]

StrLens == (0..MaxShort) \cup ((HexLen - Slack)..(HexLen + Slack))
BufLens == (0..MaxShort) \cup ((OidLen - Slack)..(OidLen + Slack))

\* a repeated pair of hex digits
OidStrPlain == {Cyc(<<a, b>>, n) : a \in HexSample, b \in HexSample, n \in StrLens}
\* one character replaced anywhere
OidStrEdited ==
    UNION {{[Cyc(<<52, 98>>, n) EXCEPT ![p] = c] : p \in 1..n, c \in Alphabet} : n \in StrLens}
\* any two leading characters
OidStrPrefixed ==
    {<<a, b>> \o Cyc(<<48>>, n - 2) : a \in Alphabet, b \in Alphabet, n \in StrLens \ {0, 1}}
\* "4b825dc642cb6eb9a060e54bf8d69288fbee4904", as EMPTY_TREE is documented
EmptyTreeHex ==
    <<52, 98, 56, 50, 53, 100, 99, 54, 52, 50, 99, 98, 54, 101, 98, 57, 97, 48, 54, 48,
      101, 53, 52, 98, 102, 56, 100, 54, 57, 50, 56, 56, 102, 98, 101, 101, 52, 57, 48, 52>>
OidStrings == OidStrPlain \cup OidStrEdited \cup OidStrPrefixed \cup {EmptyTreeHex}

OidBufPlain == {Cyc(<<a, b>>, n) : a \in ByteSample, b \in ByteSample, n \in BufLens}
OidBufEdited ==
    UNION {{[Cyc(<<75, 130>>, n) EXCEPT ![p] = c] : p \in 1..n, c \in ByteSample} : n \in BufLens}
OidBuffers == OidBufPlain \cup OidBufEdited

\* a string or a buffer on the wire, or nothing: a field that is absent
OidInputs ==
    {StrWire(s) : s \in OidStrings} \cup {BytesWire(b) : b \in OidBuffers} \cup {NoWire}

(***************************************************************************)
(* The state machine.  A raw field value (input) arrives over a transport  *)
(* (human: its is_human_readable flag) and is decoded (val; dec names the  *)
(* decoder that ran, hint the shape it asked of the deserializer); a       *)
(* decoded value is encoded (out; enc names the encoder); what was encoded *)
(* is decoded again on the same transport (back).                          *)
(***************************************************************************)
InitOid ==
    /\ input \in OidInputs
    /\ human \in BOOLEAN
    /\ val = NoVal
    /\ dec = "none"
    /\ hint = "none"
    /\ out = NoWire
    /\ enc = "none"
    /\ back = NoVal
    /\ other = NoWire /\ oval = NoVal /\ res = NoRes /\ calls = <<>>

\* Oid::from_hex(s)
FromHex ==
    /\ input.shape = "str"
    /\ val' = OidFromHex(input.text)
    /\ dec' = "from_hex"
    /\ hint' = "none"
    /\ out' = NoWire /\ enc' = "none" /\ back' = NoVal
    /\ UNCHANGED <<input, human>>
    /\ UNCHANGED <<other, oval, res, calls>>

\* OidVisitor.visit_str(v)
VisitStr ==
    /\ input.shape = "str"
    /\ val' = OidVisitStr(input.text)
    /\ dec' = "visit_str"
    /\ hint' = "none"
    /\ out' = NoWire /\ enc' = "none" /\ back' = NoVal
    /\ UNCHANGED <<input, human>>
    /\ UNCHANGED <<other, oval, res, calls>>

\* OidVisitor.visit_bytes(v)
VisitBytes ==
    /\ input.shape = "bytes"
    /\ val' = OidVisitBytes(input.bytes)
    /\ dec' = "visit_bytes"
    /\ hint' = "none"
    /\ out' = NoWire /\ enc' = "none" /\ back' = NoVal
    /\ UNCHANGED <<input, human>>
    /\ UNCHANGED <<other, oval, res, calls>>

\* Oid::deserialize(deserializer)
DeserializeOid ==
    /\ input.shape \in {"str", "bytes"}
    /\ hint' = OidHint(human)
    /\ val' = OidVisit(input)
    /\ dec' = "deserialize_oid"
    /\ out' = NoWire /\ enc' = "none" /\ back' = NoVal
    /\ UNCHANGED <<input, human>>
    /\ UNCHANGED <<other, oval, res, calls>>

\* oid.serialize(serializer)
SerializeOid ==
    /\ val.tag = "oid"
    /\ out' = OidSerialize(val.oid, human)
    /\ enc' = "serialize_oid"
    /\ back' = NoVal
    /\ UNCHANGED <<input, human, val, dec, hint>>
    /\ UNCHANGED <<other, oval, res, calls>>

\* format!("{:x}", oid)
FmtLowerHex ==
    /\ val.tag = "oid"
    /\ out' = StrWire(WriteHex(val.oid))
    /\ enc' = "lower_hex"
    /\ back' = NoVal
    /\ UNCHANGED <<input, human, val, dec, hint>>
    /\ UNCHANGED <<other, oval, res, calls>>

\* format!("{:X}", oid)
FmtUpperHex ==
    /\ val.tag = "oid"
    /\ out' = StrWire(WriteHexUpper(val.oid))
    /\ enc' = "upper_hex"
    /\ back' = NoVal
    /\ UNCHANGED <<input, human, val, dec, hint>>
    /\ UNCHANGED <<other, oval, res, calls>>

\* Oid::default(), for a field that is absent
DefaultOid ==
    /\ input = NoWire /\ dec = "none"
    /\ val' = OkOid(OidDefault)
    /\ dec' = "default"
    /\ hint' = "none"
    /\ out' = NoWire /\ enc' = "none" /\ back' = NoVal
    /\ UNCHANGED <<input, human>>
    /\ UNCHANGED <<other, oval, res, calls>>

\* Oid::deserialize on what serialize emitted
DeserializeOidBack ==
    /\ enc = "serialize_oid"
    /\ back = NoVal
    /\ back' = OidVisit(out)
    /\ UNCHANGED <<input, human, val, dec, hint, out, enc>>
    /\ UNCHANGED <<other, oval, res, calls>>

NextOid ==
    \/ FromHex
    \/ VisitStr
    \/ VisitBytes
    \/ DeserializeOid
    \/ SerializeOid
    \/ FmtLowerHex
    \/ FmtUpperHex
    \/ DefaultOid
    \/ DeserializeOidBack

SpecOid == InitOid /\ [][NextOid]_vars

(***************************************************************************)
(* The timestamps explored: epoch seconds around a set of days, and date   *)
(* time strings well-formed and not.                                       *)
(***************************************************************************)
\* days and years within Spread of each anchor, seconds within Spread of the
\* ends of the day
Spread == 1

\* d * 86400 + s as an i64, for a day number d and 0 <= s < 86400
SecondsOfDay(d, s) ==
    IF d >= 0 THEN Int64(FALSE, MulAddSmall(MagOf(d), SecsPerDay, s))
    ELSE LET m == MulAddSmall(MagOf(-d), SecsPerDay, 0)
         IN  IF s = 0 THEN Int64(TRUE, m) ELSE Int64(TRUE, Neg64(MulAddSmall(Neg64(m), 1, s)))

\* 1970-01-01, 2019-01-01, 2000-02-29, 0001-01-01, 9999-12-31, the last and the
\* first day chrono holds, and the days where the day number leaves i32
DayAnchors ==
    {0, 17897, 11016, -719162, 2932896, 95026601, -96465659,
     I32_MAX - EpochDayFromCE, I32_MAX - EpochDayFromCE - 365, I32_MAX - 3, 3 - I32_MAX}
DaySamples == {a + k : a \in DayAnchors, k \in (-Spread)..Spread}
SecSamples == (0..Spread) \cup ((SecsPerDay - 1 - Spread)..(SecsPerDay - 1)) \cup {43200}

I64Samples ==
    {SecondsOfDay(d, s) : d \in DaySamples, s \in SecSamples}
        \cup {Int64(FALSE, <<127, 255, 255, 255, 255, 255, 255, 255>>),
              Int64(TRUE, <<128, 0, 0, 0, 0, 0, 0, 0>>)}
\* every sample that is not negative, and the u64 that holds the same 64 bits as
\* each negative one
U64Samples ==
    {IF v.neg THEN Int64(FALSE, Neg64(v.mag)) ELSE v : v \in I64Samples}

D2(n) == Digits(n, 2)
Ymd(y, m, d) == Digits(y, 4) \o <<45>> \o D2(m) \o <<45>> \o D2(d)
Hms(h, mi, s) == D2(h) \o <<58>> \o D2(mi) \o <<58>> \o D2(s)
Midnight == Hms(0, 0, 0)
LastSecond == Hms(23, 59, 59)

YearSamples == {a + k : a \in {1970, 2000, 2019}, k \in (-Spread)..Spread} \cup {0, 2100, 9999}
\* "Z" "z" "+00:00" "+05:30" "-08:00" "+0530" "-23:59" "+24:00" "+05:60" "+05" ""
ZoneSamples ==
    {<<90>>, <<122>>, <<43, 48, 48, 58, 48, 48>>, <<43, 48, 53, 58, 51, 48>>,
     <<45, 48, 56, 58, 48, 48>>, <<43, 48, 53, 51, 48>>, <<45, 50, 51, 58, 53, 57>>,
     <<43, 50, 52, 58, 48, 48>>, <<43, 48, 53, 58, 54, 48>>, <<43, 48, 53>>, <<>>}
\* "" ".5" ".123" ".123456789" ".1234567891" "."
FracSamples ==
    {<<>>, <<46, 53>>, <<46, 49, 50, 51>>, <<46, 49, 50, 51, 52, 53, 54, 55, 56, 57>>,
     <<46, 49, 50, 51, 52, 53, 54, 55, 56, 57, 49>>, <<46>>}

\* every date of the sample years, real or not, at the two ends of the day
TimeStrDates ==
    {Ymd(y, m, d) \o <<84>> \o hms \o <<90>> :
        y \in YearSamples, m \in {0, 1, 2, 3, 4, 12, 13}, d \in {0, 1, 28, 29, 30, 31, 32},
        hms \in {Midnight, LastSecond}}
\* every time of day, real or not, leap seconds and fractions included
TimeStrTimes ==
    {ymd \o <<84>> \o Hms(h, mi, s) \o fr \o <<90>> :
        ymd \in {Ymd(2019, 1, 1), Ymd(2016, 12, 31)}, h \in {0, 12, 23, 24},
        mi \in {0, 59, 60}, s \in {0, 59, 60, 61}, fr \in FracSamples}
\* separators and zones
TimeStrZones ==
    {ymd \o sep \o hms \o z :
        ymd \in {Ymd(1970, 1, 1), Ymd(2019, 1, 1), Ymd(2020, 3, 1), Ymd(2019, 12, 31)},
        sep \in {<<84>>, <<116>>, <<32>>}, hms \in {Midnight, LastSecond, Hms(12, 30, 15)},
        z \in ZoneSamples}
Canon2019 == Ymd(2019, 1, 1) \o <<84>> \o Midnight \o <<90>>
\* a string cut short, with a character too many, with spaces around it or in
\* it, with one-digit numbers, with a signed year, with the zone spelled UTC
TimeStrOdd ==
    {SubSeq(Canon2019, 1, n) : n \in 0..Len(Canon2019)}
        \cup {Canon2019 \o <<c>> : c \in {32, 48, 90, 233}}
        \cup {<<32>> \o Canon2019, <<9, 32>> \o Canon2019 \o <<10>>}
        \cup {<<50, 48, 49, 57, 45, 49, 45, 49, 84, 48, 58, 48, 58, 48, 90>>,
              <<50, 48, 49, 57, 32, 45, 32, 48, 49, 45, 48, 49, 84, 48, 48, 58, 48, 48,
                58, 48, 48, 32, 90>>,
              <<43>> \o Canon2019, <<45>> \o Canon2019, <<43, 49>> \o Canon2019,
              <<50, 48, 49, 57, 49>> \o Drop(Canon2019, 4),
              TimeDisplay([year |-> 2019, ordinal |-> 1, secs |-> 0, frac |-> 0]),
              Ymd(2019, 1, 1) \o <<84>> \o Midnight \o <<32, 85, 84, 67>>,
              <<43, 50, 54, 50, 49, 52, 51, 45, 49, 50, 45, 51, 49, 84>> \o LastSecond
                  \o <<45, 48, 49, 58, 48, 48>>,
              <<43, 50, 54, 50, 49, 52, 51, 45, 49, 50, 45, 51, 49, 84>> \o LastSecond \o <<90>>,
              <<43, 50, 54, 50, 49, 52, 52, 45, 48, 49, 45, 48, 49, 84>> \o Midnight \o <<90>>,
              <<43, 57, 57, 57, 57, 57, 57, 57, 57, 57, 57, 57>> \o Drop(Canon2019, 4)}
TimeStrings == TimeStrDates \cup TimeStrTimes \cup TimeStrZones \cup TimeStrOdd

TimeInputs ==
    {StrWire(s) : s \in TimeStrings}
        \cup {I64Wire(v) : v \in I64Samples} \cup {U64Wire(v) : v \in U64Samples}

InitTime ==
    /\ input \in TimeInputs
    /\ human \in BOOLEAN
    /\ val = NoVal
    /\ dec = "none"
    /\ hint = "none"
    /\ out = NoWire
    /\ enc = "none"
    /\ back = NoVal
    /\ other = NoWire /\ oval = NoVal /\ res = NoRes /\ calls = <<>>

\* DateTimeVisitor.visit_str(v)
VisitTimeStr ==
    /\ input.shape = "str"
    /\ val' = TimeVisitStr(input.text)
    /\ dec' = "visit_str"
    /\ hint' = "none"
    /\ out' = NoWire /\ enc' = "none" /\ back' = NoVal
    /\ UNCHANGED <<input, human>>
    /\ UNCHANGED <<other, oval, res, calls>>

\* DateTimeVisitor.visit_i64(v)
VisitI64 ==
    /\ input.shape = "i64"
    /\ val' = TimeVisitI64(input.bits)
    /\ dec' = "visit_i64"
    /\ hint' = "none"
    /\ out' = NoWire /\ enc' = "none" /\ back' = NoVal
    /\ UNCHANGED <<input, human>>
    /\ UNCHANGED <<other, oval, res, calls>>

\* DateTimeVisitor.visit_u64(v)
VisitU64 ==
    /\ input.shape = "u64"
    /\ val' = TimeVisitU64(input.bits)
    /\ dec' = "visit_u64"
    /\ hint' = "none"
    /\ out' = NoWire /\ enc' = "none" /\ back' = NoVal
    /\ UNCHANGED <<input, human>>
    /\ UNCHANGED <<other, oval, res, calls>>

\* DateTime::deserialize(deserializer)
DeserializeTime ==
    /\ input.shape \in {"str", "i64", "u64"}
    /\ hint' = TimeHint(human)
    /\ val' = TimeVisit(input)
    /\ dec' = "deserialize_time"
    /\ out' = NoWire /\ enc' = "none" /\ back' = NoVal
    /\ UNCHANGED <<input, human>>
    /\ UNCHANGED <<other, oval, res, calls>>

\* format!("{}", datetime)
DisplayTime ==
    /\ val.tag = "time"
    /\ out' = StrWire(TimeDisplay(val.time))
    /\ enc' = "display"
    /\ back' = NoVal
    /\ UNCHANGED <<input, human, val, dec, hint>>
    /\ UNCHANGED <<other, oval, res, calls>>

\* format!("{:?}", datetime)
DebugTime ==
    /\ val.tag = "time"
    /\ out' = StrWire(TimeDebug(val.time))
    /\ enc' = "debug"
    /\ back' = NoVal
    /\ UNCHANGED <<input, human, val, dec, hint>>
    /\ UNCHANGED <<other, oval, res, calls>>

\* DateTimeVisitor.visit_str on the text that was written
VisitTimeStrBack ==
    /\ enc \in {"display", "debug"}
    /\ back = NoVal
    /\ back' = TimeVisitStr(out.text)
    /\ UNCHANGED <<input, human, val, dec, hint, out, enc>>
    /\ UNCHANGED <<other, oval, res, calls>>

NextTime ==
    \/ VisitTimeStr
    \/ VisitI64
    \/ VisitU64
    \/ DeserializeTime
    \/ DisplayTime
    \/ DebugTime
    \/ VisitTimeStrBack

SpecTime == InitTime /\ [][NextTime]_vars

(***************************************************************************)
(* Two values side by side: two fields arrive (input and other), each is   *)
(* decoded (val and oval) and the two values are compared (res).           *)
(***************************************************************************)
\* Oids that differ in their first, a middle or their last byte
PairOids ==
    {[base EXCEPT ![p] = c] :
        base \in {ZERO, EMPTY_TREE, Cyc(<<255>>, OidLen), Cyc(<<1, 254>>, OidLen)},
        p \in {1, 10, OidLen}, c \in {0, 1, 127, 128, 255}}
PairOidInputs ==
    {BytesWire(b) : b \in PairOids}
        \cup {StrWire(WriteHex(b)) : b \in {ZERO, EMPTY_TREE}}
        \cup {StrWire(WriteHexUpper(b)) : b \in {EMPTY_TREE, Cyc(<<255>>, OidLen)}}

InitOidPair ==
    /\ input \in PairOidInputs
    /\ other \in PairOidInputs
    /\ human \in BOOLEAN
    /\ val = NoVal /\ dec = "none" /\ hint = "none"
    /\ out = NoWire /\ enc = "none" /\ back = NoVal
    /\ oval = NoVal /\ res = NoRes /\ calls = <<>>

\* Oid::deserialize(deserializer) for the second field
DeserializeOidOther ==
    /\ other.shape \in {"str", "bytes"}
    /\ oval = NoVal
    /\ oval' = OidVisit(other)
    /\ UNCHANGED <<input, human, val, dec, hint, out, enc, back, other, res, calls>>

\* a.cmp(&b), a == b and the two hashes, for the two Oids decoded
CompareOid ==
    /\ val.tag = "oid" /\ oval.tag = "oid"
    /\ res = NoRes
    /\ res' = Compared(OidCmp(val.oid, oval.oid), OidEq(val.oid, oval.oid),
                       OidHashFeed(val.oid) = OidHashFeed(oval.oid))
    /\ UNCHANGED <<input, human, val, dec, hint, out, enc, back, other, oval, calls>>

NextOidPair ==
    \/ DeserializeOid
    \/ DeserializeOidOther
    \/ CompareOid

SpecOidPair == InitOidPair /\ [][NextOidPair]_vars

\* "+00:00" "+05:30" "-08:00" "-05:30" "Z"
PairZones ==
    {<<43, 48, 48, 58, 48, 48>>, <<43, 48, 53, 58, 51, 48>>, <<45, 48, 56, 58, 48, 48>>,
     <<45, 48, 53, 58, 51, 48>>, <<90>>}
\* the same few instants written with different offsets, and others near them
PairTimeStrings ==
    {ymd \o <<84>> \o hms \o z :
        ymd \in {Ymd(2019, 1, 1), Ymd(2018, 12, 31), Ymd(1970, 1, 1)},
        hms \in {Midnight, LastSecond, Hms(5, 30, 0), Hms(16, 0, 0), Hms(18, 30, 0)},
        z \in PairZones}
\* 0, 1546300800 and the seconds about them
PairTimeIntegers ==
    {SecondsOfDay(d, s) : d \in {0, 17896, 17897}, s \in {0, 19800, 57600, SecsPerDay - 1}}
        \cup {SecondsOfDay(-1, SecsPerDay - 1), SecondsOfDay(-1, 66600)}
PairTimeInputs ==
    {StrWire(s) : s \in PairTimeStrings} \cup {I64Wire(v) : v \in PairTimeIntegers}

InitTimePair ==
    /\ input \in PairTimeInputs
    /\ other \in PairTimeInputs
    /\ human = TRUE
    /\ val = NoVal /\ dec = "none" /\ hint = "none"
    /\ out = NoWire /\ enc = "none" /\ back = NoVal
    /\ oval = NoVal /\ res = NoRes /\ calls = <<>>

\* DateTime::deserialize(deserializer) for the second field
DeserializeTimeOther ==
    /\ other.shape \in {"str", "i64", "u64"}
    /\ oval = NoVal
    /\ oval' = TimeVisit(other)
    /\ UNCHANGED <<input, human, val, dec, hint, out, enc, back, other, res, calls>>

\* a.cmp(&b), a == b and the two hashes, for the two DateTimes decoded
CompareTime ==
    /\ val.tag = "time" /\ oval.tag = "time"
    /\ res = NoRes
    /\ res' = Compared(TimeCmp(val.time, oval.time), TimeEq(val.time, oval.time),
                       TimeHashFeed(val.time) = TimeHashFeed(oval.time))
    /\ UNCHANGED <<input, human, val, dec, hint, out, enc, back, other, oval, calls>>

NextTimePair ==
    \/ DeserializeTime
    \/ DeserializeTimeOther
    \/ CompareTime

SpecTimePair == InitTimePair /\ [][NextTimePair]_vars

(***************************************************************************)
(* The payloads that hold the two scalars: #[derive(Deserialize)] on       *)
(* PushCommit and PushEvent (src/events.rs).  Of each struct the fields of *)
(* type Oid, DateTime and Box<[PushCommit]> are modelled; every other key  *)
(* is passed over as an unknown key is.                                    *)
(***************************************************************************)
\* de::Error::missing_field(name), de::Error::duplicate_field(name)
MissingField(name) == [kind |-> "missing_field", n |-> 0, exp |-> name, bits |-> NoInt]
DuplicateField(name) == [kind |-> "duplicate_field", n |-> 0, exp |-> name, bits |-> NoInt]

\* Result<T, E>: v holds the value when ok
Ok(v) == [ok |-> TRUE, v |-> <<v>>, err |-> NoErr]
Err(e) == [ok |-> FALSE, v |-> <<>>, err |-> e]

\* a field decoder that answers the default value where decoding failed
FieldResultOrDefault(r) ==
    IF r.tag = "oid" THEN Ok(r.oid)
    ELSE IF r.tag = "time" THEN Ok(r.time)
    ELSE Ok(ZERO)

\* map.next_value::<Oid>()? and map.next_value::<DateTime>()?
FieldResult(r) ==
    IF r.tag = "oid" THEN Ok(r.oid)
    ELSE IF r.tag = "time" THEN Ok(r.time)
    ELSE Err(r.err)

\* pub struct PushCommit: id, tree_id, timestamp
PushCommitFields ==
    << [name |-> "id", ty |-> "Oid"], [name |-> "tree_id", ty |-> "Oid"],
       [name |-> "timestamp", ty |-> "DateTime"] >>
\* pub struct PushEvent: before, after, commits
PushEventFields ==
    << [name |-> "before", ty |-> "Oid"], [name |-> "after", ty |-> "Oid"],
       [name |-> "commits", ty |-> "Box<[PushCommit]>"] >>

\* pub struct User: fifteen fields borrowed from the input, id and site_admin
UserFields ==
    << [name |-> "login", ty |-> "&str"], [name |-> "id", ty |-> "u64"],
       [name |-> "avatar_url", ty |-> "&str"], [name |-> "gravatar_id", ty |-> "&str"],
       [name |-> "url", ty |-> "&str"], [name |-> "html_url", ty |-> "&str"],
       [name |-> "followers_url", ty |-> "&str"], [name |-> "following_url", ty |-> "&str"],
       [name |-> "gists_url", ty |-> "&str"], [name |-> "starred_url", ty |-> "&str"],
       [name |-> "subscriptions_url", ty |-> "&str"],
       [name |-> "organizations_url", ty |-> "&str"], [name |-> "repos_url", ty |-> "&str"],
       [name |-> "events_url", ty |-> "&str"], [name |-> "received_events_url", ty |-> "&str"],
       [name |-> "site_admin", ty |-> "bool"] >>

\* the values of a JSON text as the deserializer hands them to a visitor: a
\* string with its characters unescaped, borrowed from the input where the
\* text holds no escape; a number by its sign and form; true and false
RECURSIVE Unescape(_, _)
Unescape(raw, i) ==
    IF i > Len(raw) THEN <<>>
    ELSE IF raw[i] # 92 THEN <<raw[i]>> \o Unescape(raw, i + 1)
    ELSE IF i = Len(raw) THEN <<>>
    ELSE << IF raw[i + 1] = 110 THEN 10 ELSE IF raw[i + 1] = 116 THEN 9
            ELSE IF raw[i + 1] = 114 THEN 13 ELSE raw[i + 1] >> \o Unescape(raw, i + 2)
JsonStr(raw) ==
    [shape |-> "str", text |-> Unescape(raw, 1), bytes |-> <<>>, bits |-> NoInt,
     entries |-> <<>>, borrowed |-> \A i \in 1..Len(raw) : raw[i] # 92, flag |-> FALSE]
JsonNum(neg, n, float) ==
    [shape |-> IF float THEN "f64" ELSE IF neg THEN "i64" ELSE "u64", text |-> <<>>,
     bytes |-> <<>>, bits |-> Int64(neg, MagOf(n)), entries |-> <<>>, borrowed |-> FALSE,
     flag |-> FALSE]
JsonBool(b) ==
    [shape |-> "bool", text |-> <<>>, bytes |-> <<>>, bits |-> NoInt, entries |-> <<>>,
     borrowed |-> FALSE, flag |-> b]

\* the visitor of &str answering the empty string for every string
BorrowStrOrEmpty(w) ==
    IF w.shape = "str" THEN Ok(<<>>) ELSE Err(InvalidType("a borrowed string"))

\* <&'a str as Deserialize>: the visitor overrides visit_borrowed_str alone,
\* so an unescaped copy falls to the default visit_str
BorrowStr(w) ==
    IF w.shape = "str" /\ w.borrowed THEN Ok(w.text)
    ELSE Err(InvalidType("a borrowed string"))

\* <u64 as Deserialize>: visit_u64, and visit_i64 of a value that is not negative
U64Value(w) ==
    IF w.shape = "u64" THEN Ok(w.bits)
    ELSE IF w.shape = "i64" /\ ~w.bits.neg THEN Ok(w.bits)
    ELSE IF w.shape = "i64" THEN Err([kind |-> "invalid_value", n |-> 0, exp |-> "u64",
                                      bits |-> w.bits])
    ELSE Err(InvalidType("u64"))

\* <bool as Deserialize>: visit_bool
BoolValue(w) == IF w.shape = "bool" THEN Ok(w.flag) ELSE Err(InvalidType("a boolean"))

FieldNames(fields) == {fields[i].name : i \in 1..Len(fields)}
FieldType(fields, name) == fields[CHOOSE i \in 1..Len(fields) : fields[i].name = name].ty

\* the end of the derived visit_map: the first field, in the order of the
\* struct, that no key gave is missing; else the struct is built
BuildStruct(fields, slots) ==
    IF \E i \in 1..Len(fields) : slots[fields[i].name] = <<>>
    THEN Err(MissingField(
            fields[CHOOSE i \in 1..Len(fields) :
                      /\ slots[fields[i].name] = <<>>
                      /\ \A j \in 1..(i - 1) : slots[fields[j].name] # <<>>].name))
    ELSE Ok([n \in FieldNames(fields) |-> slots[n][1]])

RECURSIVE DeserializeValue(_, _)
RECURSIVE VisitMap(_, _, _, _)
RECURSIVE VisitSeq(_, _, _)

\* the derived visit_map, after map.next_value()? of entry i
PutField(fields, entries, i, slots, r) ==
    IF ~r.ok THEN Err(r.err)
    ELSE VisitMap(fields, entries, i + 1, [slots EXCEPT ![entries[i].key] = r.v])

\* the derived visit_map: the entries in their order on the wire; a key that
\* names no field is skipped, a key seen twice is an error
VisitMap(fields, entries, i, slots) ==
    IF i > Len(entries) THEN BuildStruct(fields, slots)
    ELSE IF entries[i].key \notin FieldNames(fields)
         THEN VisitMap(fields, entries, i + 1, slots)
    ELSE IF slots[entries[i].key] # <<>> THEN Err(DuplicateField(entries[i].key))
    ELSE PutField(fields, entries, i, slots,
                  DeserializeValue(FieldType(fields, entries[i].key), entries[i].value))

\* <Box<[T]> as Deserialize>: seq.next_element()? of element i
PutElement(items, i, acc, r) ==
    IF ~r.ok THEN Err(r.err) ELSE VisitSeq(items, i + 1, acc \o r.v)

\* <Box<[PushCommit]> as Deserialize>: the elements in order
VisitSeq(items, i, acc) ==
    IF i > Len(items) THEN Ok(acc)
    ELSE PutElement(items, i, acc, DeserializeValue("PushCommit", items[i].value))

\* T::deserialize for the type named ty and the value w on the wire
DeserializeValue(ty, w) ==
    IF ty = "Oid" THEN FieldResult(OidVisit(w))
    ELSE IF ty = "DateTime" THEN FieldResult(TimeVisit(w))
    ELSE IF ty = "&str" THEN BorrowStr(w)
    ELSE IF ty = "u64" THEN U64Value(w)
    ELSE IF ty = "bool" THEN BoolValue(w)
    ELSE IF ty = "Box<[PushCommit]>"
         THEN IF w.shape = "seq" THEN VisitSeq(w.entries, 1, <<>>)
              ELSE Err(InvalidType("a sequence"))
    ELSE IF w.shape # "map" THEN Err(InvalidType("struct"))
    ELSE IF ty = "PushCommit"
         THEN VisitMap(PushCommitFields, w.entries, 1,
                       [n \in FieldNames(PushCommitFields) |-> <<>>])
    ELSE IF ty = "User"
         THEN VisitMap(UserFields, w.entries, 1, [n \in FieldNames(UserFields) |-> <<>>])
    ELSE VisitMap(PushEventFields, w.entries, 1, [n \in FieldNames(PushEventFields) |-> <<>>])

\* the Result of deserializing a payload
Decoded(r) ==
    [tag |-> IF r.ok THEN "struct" ELSE "err", ord |-> "", eq |-> FALSE, hash |-> FALSE,
     body |-> r.v, err |-> r.err]

\* the values a field of type Oid and one of type DateTime arrive with
OidWireSamples ==
    {StrWire(EmptyTreeHex), StrWire(Cyc(<<48>>, HexLen)), StrWire(Cyc(<<48>>, HexLen - 1)),
     StrWire(<<122, 122>> \o Cyc(<<48>>, HexLen - 2)), I64Wire(Int64(FALSE, ZeroMag))}
TimeWireSamples ==
    {StrWire(Canon2019), I64Wire(Int64(FALSE, MagOf(1546300800))),
     StrWire(TimeDisplay([year |-> 2019, ordinal |-> 1, secs |-> 0, frac |-> 0])),
     I64Wire(Int64(FALSE, <<127, 255, 255, 255, 255, 255, 255, 255>>)), StrWire(<<>>)}
\* a key the structs do not know
UnknownEntry == Entry("url", StrWire(<<104>>))

\* PushCommit payloads: the keys in two orders, a key missing, a key twice
PushCommitMaps ==
    {MapWire(<<Entry("id", a), Entry("tree_id", b), Entry("timestamp", c)>>) :
        a \in OidWireSamples, b \in OidWireSamples, c \in TimeWireSamples}
    \cup {MapWire(<<Entry("timestamp", c), UnknownEntry, Entry("tree_id", b), Entry("id", a)>>) :
        a \in OidWireSamples, b \in OidWireSamples, c \in TimeWireSamples}
    \cup {MapWire(<<Entry("id", a), Entry("tree_id", a)>>) : a \in OidWireSamples}
    \cup {MapWire(<<Entry("id", a), Entry("id", b), Entry("tree_id", a),
                    Entry("timestamp", StrWire(Canon2019))>>) :
        a \in OidWireSamples, b \in OidWireSamples}
CommitOf(a, c) == MapWire(<<Entry("id", a), Entry("tree_id", a), Entry("timestamp", c)>>)
\* the lists of commits of a PushEvent: none, one, and two with the second
\* or the first of them malformed
CommitLists ==
    {<<>>} \cup {<<CommitOf(a, c)>> : a \in OidWireSamples, c \in TimeWireSamples}
        \cup {<<CommitOf(StrWire(EmptyTreeHex), StrWire(Canon2019)), CommitOf(a, c)>> :
                a \in OidWireSamples, c \in TimeWireSamples}
PushEventMaps ==
    {MapWire(<<Entry("before", a), Entry("after", b), Entry("commits", SeqWire(cs))>>) :
        a \in OidWireSamples, b \in {StrWire(EmptyTreeHex), StrWire(<<>>)}, cs \in CommitLists}
    \cup {MapWire(<<Entry("commits", SeqWire(cs)), Entry("after", a)>>) :
        a \in OidWireSamples, cs \in CommitLists}

InitPayload ==
    /\ input \in PushCommitMaps \cup PushEventMaps
    /\ human = TRUE
    /\ val = NoVal /\ dec = "none" /\ hint = "none"
    /\ out = NoWire /\ enc = "none" /\ back = NoVal
    /\ other = NoWire /\ oval = NoVal /\ res = NoRes /\ calls = <<>>

\* PushCommit::deserialize(deserializer)
DeserializePushCommit ==
    /\ input.shape = "map"
    /\ res' = Decoded(DeserializeValue("PushCommit", input))
    /\ dec' = "PushCommit"
    /\ UNCHANGED <<input, human, val, hint, out, enc, back, other, oval, calls>>

\* PushEvent::deserialize(deserializer)
DeserializePushEvent ==
    /\ input.shape = "map"
    /\ res' = Decoded(DeserializeValue("PushEvent", input))
    /\ dec' = "PushEvent"
    /\ UNCHANGED <<input, human, val, hint, out, enc, back, other, oval, calls>>

NextPayload ==
    \/ DeserializePushCommit
    \/ DeserializePushEvent

SpecPayload == InitPayload /\ [][NextPayload]_vars

(***************************************************************************)
(* Calls in flight at once.  Each caller runs one call of a codec, step by *)
(* step, and the steps of the callers interleave.  What a call writes on   *)
(* its way is a local of that call: the String hex of serialize            *)
(* (oid.rs:93) and the array inner of visit_bytes (oid.rs:152).            *)
(***************************************************************************)
\* how many callers run at once
NumCallers == 2
Callers == 1..NumCallers

\* what a call returns: a value written to the transport, or a decoded value
NoRet == [out |-> NoWire, val |-> NoVal]
\* a call that has not begun
Call(op, h, self, arg) ==
    [op |-> op, human |-> h, self |-> self, arg |-> arg,
     pc |-> "start", hex |-> <<>>, inner |-> <<>>, ret |-> NoRet]

\* one scratch buffer for all the calls, kept by the first caller
LocalsOfFirst(k) == 1

\* the call whose locals the call k writes and reads: its own
LocalsOf(k) == k

CallSamples ==
    {Call("serialize", h, b, NoWire) :
        h \in BOOLEAN, b \in {EMPTY_TREE, Cyc(<<1, 254>>, OidLen)}}
    \cup {Call("visit_bytes", FALSE, <<>>, BytesWire(b)) :
        b \in {EMPTY_TREE, Cyc(<<255>>, OidLen), Cyc(<<255>>, OidLen - 1)}}
    \cup {Call("visit_i64", FALSE, <<>>, I64Wire(v)) :
        v \in {Int64(FALSE, MagOf(1546300800)),
               Int64(FALSE, <<127, 255, 255, 255, 255, 255, 255, 255>>)}}

InitCalls ==
    /\ calls \in [Callers -> CallSamples]
    /\ input = NoWire /\ human = FALSE
    /\ val = NoVal /\ dec = "none" /\ hint = "none"
    /\ out = NoWire /\ enc = "none" /\ back = NoVal
    /\ other = NoWire /\ oval = NoVal /\ res = NoRes

\* serialize: the branch on is_human_readable; let mut hex = String::new(), or
\* serialize_bytes(self.0.as_ref())
SerializeBegin ==
    \E k \in Callers :
        /\ calls[k].op = "serialize" /\ calls[k].pc = "start"
        /\ calls' =
              IF calls[k].human
              THEN [calls EXCEPT ![k].pc = "hex", ![LocalsOf(k)].hex = <<>>]
              ELSE [calls EXCEPT ![k].pc = "done", ![k].ret.out = BytesWire(calls[k].self)]
        /\ UNCHANGED <<input, human, val, dec, hint, out, enc, back, other, oval, res>>

\* write_hex(&mut hex): the digits of the first ten bytes, then of the last ten
SerializeWriteHex ==
    \E k \in Callers :
        /\ calls[k].op = "serialize" /\ calls[k].pc \in {"hex", "half"}
        /\ calls' =
              IF calls[k].pc = "hex"
              THEN [calls EXCEPT
                      ![k].pc = "half",
                      ![LocalsOf(k)].hex = @ \o WriteHex(SubSeq(calls[k].self, 1, OidLen \div 2))]
              ELSE [calls EXCEPT
                      ![k].pc = "written",
                      ![LocalsOf(k)].hex =
                          @ \o WriteHex(SubSeq(calls[k].self, (OidLen \div 2) + 1, OidLen))]
        /\ UNCHANGED <<input, human, val, dec, hint, out, enc, back, other, oval, res>>

\* serializer.serialize_str(&hex)
SerializeStr ==
    \E k \in Callers :
        /\ calls[k].op = "serialize" /\ calls[k].pc = "written"
        /\ calls' = [calls EXCEPT ![k].pc = "done",
                                   ![k].ret.out = StrWire(calls[LocalsOf(k)].hex)]
        /\ UNCHANGED <<input, human, val, dec, hint, out, enc, back, other, oval, res>>

\* visit_bytes: the check of v.len(), then let mut inner = <[u8; 20]>::default()
VisitBytesBegin ==
    \E k \in Callers :
        /\ calls[k].op = "visit_bytes" /\ calls[k].pc = "start"
        /\ calls' =
              IF Len(calls[k].arg.bytes) # OidLen
              THEN [calls EXCEPT
                      ![k].pc = "done",
                      ![k].ret.val = Fail(InvalidLength(Len(calls[k].arg.bytes), "20 bytes"))]
              ELSE [calls EXCEPT ![k].pc = "inner", ![LocalsOf(k)].inner = OidDefault]
        /\ UNCHANGED <<input, human, val, dec, hint, out, enc, back, other, oval, res>>

\* inner.copy_from_slice(v)
VisitBytesCopy ==
    \E k \in Callers :
        /\ calls[k].op = "visit_bytes" /\ calls[k].pc = "inner"
        /\ calls' = [calls EXCEPT ![k].pc = "copied", ![LocalsOf(k)].inner = calls[k].arg.bytes]
        /\ UNCHANGED <<input, human, val, dec, hint, out, enc, back, other, oval, res>>

\* Ok(Oid(inner))
VisitBytesReturn ==
    \E k \in Callers :
        /\ calls[k].op = "visit_bytes" /\ calls[k].pc = "copied"
        /\ calls' = [calls EXCEPT ![k].pc = "done",
                                   ![k].ret.val = OkOid(calls[LocalsOf(k)].inner)]
        /\ UNCHANGED <<input, human, val, dec, hint, out, enc, back, other, oval, res>>

\* DateTimeVisitor.visit_i64(v): it holds no local between two steps
VisitI64Call ==
    \E k \in Callers :
        /\ calls[k].op = "visit_i64" /\ calls[k].pc = "start"
        /\ calls' = [calls EXCEPT ![k].pc = "done",
                                   ![k].ret.val = TimeVisitI64(calls[k].arg.bits)]
        /\ UNCHANGED <<input, human, val, dec, hint, out, enc, back, other, oval, res>>

NextCalls ==
    \/ SerializeBegin
    \/ SerializeWriteHex
    \/ SerializeStr
    \/ VisitBytesBegin
    \/ VisitBytesCopy
    \/ VisitBytesReturn
    \/ VisitI64Call

SpecCalls == InitCalls /\ [][NextCalls]_vars

(***************************************************************************)
(* Properties of the Oid codec.                                            *)
(***************************************************************************)
IsHexDigit(c) == c \in (48..57) \cup (65..70) \cup (97..102)
IsHex40(s) == Len(s) = HexLen /\ \A i \in 1..Len(s) : IsHexDigit(s[i])
ToLower(s) == [i \in 1..Len(s) |-> IF s[i] \in 65..90 THEN s[i] + 32 ELSE s[i]]

\* the input was decoded as text
TextDecoded == input.shape = "str" /\ dec \in {"from_hex", "visit_str", "deserialize_oid"}
\* the input was decoded by the serde string visitor
VisitorDecoded == input.shape = "str" /\ dec \in {"visit_str", "deserialize_oid"}
\* the input was decoded as a byte buffer
BinaryDecoded == input.shape = "bytes" /\ dec \in {"visit_bytes", "deserialize_oid"}

\* C1: a string of exactly 40 hex digits, in any mix of case, decodes (from_hex
\* or the string visitor), and the lowercase hex rendering of the result is the
\* lowercase form of the string.
C1_HexRoundTrip ==
    (TextDecoded /\ IsHex40(input.text)) =>
        /\ val.tag = "oid"
        /\ enc = "lower_hex" => out = StrWire(ToLower(input.text))

C1_Witness ==
    /\ dec = "from_hex" /\ IsHex40(input.text)
    /\ \E i \in 1..Len(input.text) : input.text[i] \in 65..70
    /\ \E i \in 1..Len(input.text) : input.text[i] \in 97..102
    /\ enc = "lower_hex"

\* C2: a 20-byte buffer decodes through visit_bytes, and serializing the result
\* on a non-human-readable transport emits the bytes of the buffer in order.
C2_BytesRoundTrip ==
    (BinaryDecoded /\ Len(input.bytes) = OidLen) =>
        /\ val.tag = "oid"
        /\ (enc = "serialize_oid" /\ ~human) => out = BytesWire(input.bytes)

C2_Witness ==
    /\ dec = "visit_bytes" /\ Len(input.bytes) = OidLen
    /\ \E i, j \in 1..OidLen : input.bytes[i] # input.bytes[j]
    /\ enc = "serialize_oid" /\ ~human

\* C3: serializing an Oid and deserializing the output on the same transport
\* gives the Oid back, on a human-readable transport (a string on the wire) and
\* on a binary one (bytes on the wire).
C3_SerdeRoundTrip ==
    (enc = "serialize_oid" /\ back # NoVal) =>
        /\ back = OkOid(val.oid)
        /\ out.shape = IF human THEN "str" ELSE "bytes"

C3_Witness ==
    /\ enc = "serialize_oid" /\ back.tag = "oid" /\ human
    /\ \E i \in 1..OidLen : val.oid[i] >= 160

\* C4: text decoding succeeds exactly when the input is 40 characters long and
\* every character is a hexadecimal digit.
C4_TextAcceptsExactlyHex40 ==
    TextDecoded => (val.tag = "oid" <=> IsHex40(input.text))

C4_Witness ==
    /\ TextDecoded /\ val.tag = "err"
    /\ Len(input.text) = HexLen
    /\ \E i \in 1..Len(input.text) : ~IsHexDigit(input.text[i])

\* the first character of s that is no hex digit
FirstNonHexChar(s) ==
    s[CHOOSE i \in 1..Len(s) :
        ~IsHexDigit(s[i]) /\ \A j \in 1..(i - 1) : IsHexDigit(s[j])]

\* C5 as stated: whenever text decoding fails, a string whose length is odd or
\* is not 40 gives an invalid-length error carrying the length, and a string of
\* length 40 with a non-hex character gives an invalid-character error carrying
\* that character.
C5_ErrorNamesCause ==
    (TextDecoded /\ val.tag = "err") =>
        IF Len(Utf8(input.text)) # HexLen
        THEN val.err.kind = "invalid_length" /\ val.err.n = Len(Utf8(input.text))
        ELSE val.err.kind = "invalid_char" /\ val.err.n = FirstNonHexChar(input.text)

\* the first byte of b that is no ASCII hex digit
FirstNonHexByte(b) ==
    b[CHOOSE i \in 1..Len(b) :
        ~IsHexDigit(b[i]) /\ \A j \in 1..(i - 1) : IsHexDigit(b[j])]

\* C5 amended: when the serde string visitor rejects a string, one whose UTF-8
\* length in bytes is odd or is not 40 gives an invalid-length error carrying
\* that byte length, and one of 40 bytes gives an invalid-character error
\* carrying its first byte that is no hex digit, as a character; Oid::from_hex
\* fails with the unit error only.
C5_VisitorErrorNamesCause ==
    /\ (VisitorDecoded /\ val.tag = "err") =>
          IF Len(Utf8(input.text)) # HexLen
          THEN val.err.kind = "invalid_length" /\ val.err.n = Len(Utf8(input.text))
          ELSE val.err.kind = "invalid_char"
               /\ val.err.n = FirstNonHexByte(Utf8(input.text))
    /\ (dec = "from_hex" /\ val.tag = "err") => val.err = UnitErr

C5_Witness ==
    /\ dec = "visit_str" /\ val.tag = "err" /\ val.err.kind = "invalid_char"
    /\ val.err.n = 122
    /\ input.text[1] = 122 /\ input.text[2] = 122

\* C6: binary decoding succeeds exactly when the buffer holds 20 bytes; a buffer
\* of any other length n fails with an invalid-length error reporting n against
\* the expected 20 bytes, and yields no Oid.
C6_BinaryAcceptsExactly20 ==
    BinaryDecoded =>
        IF Len(input.bytes) = OidLen
        THEN val.tag = "oid"
        ELSE val = Fail(InvalidLength(Len(input.bytes), "20 bytes"))

C6_Witness ==
    /\ BinaryDecoded /\ Len(input.bytes) = OidLen - 1
    /\ val.tag = "err" /\ val.err.n = OidLen - 1

\* the value of the hex digit c, in either case
DigitValue(c) == IF c <= 57 THEN c - 48 ELSE IF c <= 70 THEN c - 55 ELSE c - 87
\* s holds 40 characters of the set D, and pair i of them spells byte i of b
Spells(s, D, b) ==
    /\ Len(s) = 40 /\ Len(b) = 20
    /\ \A i \in 1..Len(s) : s[i] \in D
    /\ \A i \in 1..Len(b) : DigitValue(s[2 * i - 1]) * 16 + DigitValue(s[2 * i]) = b[i]

\* C14: serializing an Oid picks the wire form from the transport flag alone: one
\* string of exactly 40 characters on a human-readable transport, exactly 20
\* raw bytes otherwise; deserializing asks the transport for a string when it
\* is human-readable and for bytes otherwise.
C14_WireFormFollowsTransport ==
    /\ enc = "serialize_oid" =>
          IF human
          THEN out.shape = "str" /\ Len(out.text) = 40 /\ out.bytes = <<>>
          ELSE out.shape = "bytes" /\ Len(out.bytes) = 20 /\ out.text = <<>>
    /\ dec = "deserialize_oid" => hint = IF human THEN "str" ELSE "bytes"

C14_Witness ==
    /\ dec = "deserialize_oid" /\ ~human /\ hint = "bytes"
    /\ enc = "serialize_oid" /\ out.shape = "bytes"

\* C15: the text encoding of an Oid (the lowercase hex rendering and the string
\* serialized on a human-readable transport) is exactly 40 characters of 0-9
\* and a-f, pair i spelling byte i; the uppercase rendering is the same string
\* with A-F for a-f.
C15_TextIsLowerHex40 ==
    /\ (enc = "lower_hex" \/ (enc = "serialize_oid" /\ human)) =>
          Spells(out.text, (48..57) \cup (97..102), val.oid)
    /\ enc = "upper_hex" =>
          /\ Spells(out.text, (48..57) \cup (65..70), val.oid)
          /\ ToLower(out.text) = WriteHex(val.oid)

C15_Witness ==
    /\ enc = "upper_hex"
    /\ \E i \in 1..Len(out.text) : out.text[i] \in 65..70
    /\ \E i \in 1..Len(out.text) : out.text[i] \in 48..57

\* C16: the documented hex string of the empty tree decodes to Oid::EMPTY_TREE
\* and the string of 40 zeros decodes to Oid::ZERO.
C16_NamedConstantsDecode ==
    TextDecoded =>
        /\ input.text = EmptyTreeHex => val = OkOid(EMPTY_TREE)
        /\ input.text = [i \in 1..40 |-> 48] => val = OkOid(ZERO)

C16_Witness ==
    /\ dec = "from_hex" /\ input.text = EmptyTreeHex /\ val.tag = "oid"
    /\ val.oid[1] = 75 /\ val.oid[20] = 4

\* C17: Oid::default() is the all-zero identifier: it equals Oid::ZERO and
\* differs from Oid::EMPTY_TREE.
C17_DefaultIsZero ==
    dec = "default" => val = OkOid(ZERO) /\ val # OkOid(EMPTY_TREE)

C17_Witness ==
    /\ dec = "default" /\ val.tag = "oid" /\ enc = "lower_hex"
    /\ out.text = [i \in 1..40 |-> 48]

(***************************************************************************)
(* Properties of the DateTime codec.  The calendar is counted here on its  *)
(* own: days by the proleptic Gregorian rules, not by chrono's tables.     *)
(***************************************************************************)
\* the leap days of the years 1..y-1
LeapsBefore(y) == ((y - 1) \div 4) - ((y - 1) \div 100) + ((y - 1) \div 400)
\* the days from 1970-01-01 to the given day of the given year
DaysSinceEpoch(year, ordinal) ==
    365 * (year - 1970) + LeapsBefore(year) - LeapsBefore(1970) + ordinal - 1
\* the whole seconds from 1970-01-01T00:00:00Z to the instant t
EpochOf(t) == SecondsOfDay(DaysSinceEpoch(t.year, t.ordinal), t.secs)

CivilMonthLen(y, m) ==
    IF m \in {4, 6, 9, 11} THEN 30
    ELSE IF m # 2 THEN 31
    ELSE IF y % 400 = 0 \/ (y % 4 = 0 /\ y % 100 # 0) THEN 29 ELSE 28
\* the days from 1970-01-01 to y-m-d, by the civil-calendar formula
DaysFromCivil(y, m, d) ==
    LET yy == IF m <= 2 THEN y - 1 ELSE y
        era == yy \div 400
        yoe == yy - era * 400
        doy == ((153 * (IF m > 2 THEN m - 3 ELSE m + 9) + 2) \div 5) + d - 1
    IN  era * 146097 + yoe * 365 + (yoe \div 4) - (yoe \div 100) + doy - 719468

\* a <= b for magnitudes of the same length
MagLe(a, b) ==
    a = b \/ \E i \in 1..Len(a) : a[i] < b[i] /\ \A j \in 1..(i - 1) : a[j] = b[j]
\* a <= b for 64-bit integers
Le64(a, b) ==
    IF a.neg /\ ~b.neg THEN TRUE
    ELSE IF ~a.neg /\ b.neg THEN IsZeroMag(a.mag) /\ IsZeroMag(b.mag)
    ELSE IF a.neg THEN MagLe(b.mag, a.mag)
    ELSE MagLe(a.mag, b.mag)

\* the small number n >= 0 as a 64-bit integer
MagInt(n) == Int64(FALSE, MagOf(n))

\* the instants a timestamp can hold: -262144-01-01T00:00:00Z up to
\* +262143-12-31T23:59:59Z
LegalInstant(n) ==
    /\ Le64(SecondsOfDay(DaysSinceEpoch(-262144, 1), 0), n)
    /\ Le64(n, SecondsOfDay(DaysSinceEpoch(262143, 365), 86399))

\* the two digits of s at i and i + 1, as a number
Num2(s, i) == (s[i] - 48) * 10 + (s[i + 1] - 48)
Num4(s, i) == Num2(s, i) * 100 + Num2(s, i + 2)
\* s begins "YYYY-MM-DDTHH:MM:SS" with a day that exists and a time of day, the
\* second 60 of a leap second included
IsDateTime19(s) ==
    /\ Len(s) >= 19
    /\ \A i \in {1, 2, 3, 4, 6, 7, 9, 10, 12, 13, 15, 16, 18, 19} : s[i] \in 48..57
    /\ s[5] = 45 /\ s[8] = 45 /\ s[11] = 84 /\ s[14] = 58 /\ s[17] = 58
    /\ Num2(s, 6) \in 1..12
    /\ Num2(s, 9) \in 1..CivilMonthLen(Num4(s, 1), Num2(s, 6))
    /\ Num2(s, 12) <= 23 /\ Num2(s, 15) <= 59 /\ Num2(s, 18) <= 60
\* the RFC-3339 form in UTC: the date and time, an optional fraction, "Z"
IsRfc3339(s) ==
    /\ IsDateTime19(s)
    /\ Len(s) >= 20 /\ s[Len(s)] = 90
    /\ Len(s) > 20 =>
          /\ s[20] = 46 /\ Len(s) >= 22
          /\ \A i \in 21..(Len(s) - 1) : s[i] \in 48..57
\* the second-precision form "YYYY-MM-DDTHH:MM:SSZ"
IsCanonical(s) == IsRfc3339(s) /\ Len(s) = 20 /\ Num2(s, 18) <= 59
\* the whole seconds from the epoch to the instant the string s denotes
EpochOfText(s) ==
    SecondsOfDay(DaysFromCivil(Num4(s, 1), Num2(s, 6), Num2(s, 9)),
                 Num2(s, 12) * 3600 + Num2(s, 15) * 60
                     + (IF Num2(s, 18) = 60 THEN 59 ELSE Num2(s, 18)))

\* the input was decoded as a signed integer of epoch seconds
SignedDecoded == input.shape = "i64" /\ dec \in {"visit_i64", "deserialize_time"}
\* the input was decoded as an unsigned integer of epoch seconds
UnsignedDecoded == input.shape = "u64" /\ dec \in {"visit_u64", "deserialize_time"}
\* the input was decoded as a date time string
StringDecoded == input.shape = "str" /\ dec \in {"visit_str", "deserialize_time"}

\* C7: every integer n that denotes a legal instant decodes, as epoch seconds,
\* to the instant exactly n whole seconds from 1970-01-01T00:00:00Z with no
\* sub-second part; and the RFC-3339 string "YYYY-MM-DDTHH:MM:SSZ" of an instant
\* decodes to the very value that the instant's epoch seconds decode to.
C7_EpochSecondsExact ==
    /\ (SignedDecoded /\ LegalInstant(input.bits)) => val.tag = "time"
    /\ (SignedDecoded /\ val.tag = "time") =>
          /\ val.time.frac = 0
          /\ EpochOf(val.time) = input.bits
    /\ (StringDecoded /\ IsCanonical(input.text)) =>
          /\ val.tag = "time"
          /\ val.time.frac = 0
          /\ EpochOf(val.time) = EpochOfText(input.text)
          /\ val = TimeVisitI64(EpochOfText(input.text))

C7_Witness ==
    /\ dec = "visit_i64" /\ input = I64Wire(MagInt(1546300800))
    /\ val = TimeVisitStr(Canon2019)
    /\ val.time = [year |-> 2019, ordinal |-> 1, secs |-> 0, frac |-> 0]

\* C8 as stated: an unsigned 64-bit integer is range-checked before it is read
\* as signed: a value above the signed maximum is never taken for a negative
\* count of epoch seconds, and a value within the signed range decodes as the
\* equal signed value does.
C8_UnsignedRangeChecked ==
    UnsignedDecoded =>
        IF input.bits.mag[1] >= 128
        THEN val.tag = "time" => val.time.year >= 1970
        ELSE val = TimeVisitI64(input.bits)

\* C9 as stated: an integer that denotes no legal instant fails to decode, with
\* an error that names the integer, and yields no timestamp.
C9_IllegalIntegerFails ==
    ((SignedDecoded \/ UnsignedDecoded) /\ ~LegalInstant(input.bits)) =>
        /\ val.tag = "err"
        /\ val.err.kind = "custom"
        /\ val.err.bits = input.bits

C13_TimeDispatchOnTransport ==
    dec = "deserialize_time" =>
        /\ hint = IF human THEN "any" ELSE "i64"
        /\ (human /\ input.shape = "str") =>
              /\ val = TimeVisitStr(input.text)
              /\ IsCanonical(input.text) => val.tag = "time"
        /\ input.shape = "i64" =>
              /\ val = TimeVisitI64(input.bits)
              /\ LegalInstant(input.bits) => val.tag = "time"
        /\ input.shape = "u64" => val = TimeVisitU64(input.bits)

C13_Witness ==
    /\ dec = "deserialize_time" /\ ~human /\ hint = "i64"
    /\ input.shape = "i64" /\ val.tag = "time" /\ val.time.year = 2019

(***************************************************************************)
(* Properties of two values side by side.                                  *)
(***************************************************************************)
\* the indices where a and b differ
Differ(a, b) == {i \in 1..Len(a) : a[i] # b[i]}
\* the first index where a and b differ, when they do
FirstDiffer(a, b) == CHOOSE i \in Differ(a, b) : \A j \in Differ(a, b) : i <= j
\* a before b in the lexicographic order of two sequences of the same length
LexLess(a, b) == Differ(a, b) # {} /\ a[FirstDiffer(a, b)] < b[FirstDiffer(a, b)]
\* the lowercase hex string of the bytes b
HexString(b) ==
    [i \in 1..(2 * Len(b)) |->
        LET n == IF i % 2 = 1 THEN b[(i + 1) \div 2] \div 16 ELSE b[i \div 2] % 16
        IN  IF n < 10 THEN 48 + n ELSE 87 + n]

\* C18: Oids are totally ordered byte by byte: a < b exactly when a's byte is
\* the smaller at the first index where they differ, a == b exactly when all 20
\* bytes are equal, and the order is the lexicographic order of the lowercase
\* hex strings.
C18_OidOrderIsByteLexicographic ==
    res.tag = "cmp" =>
        /\ res.ord \in {"less", "equal", "greater"}
        /\ (res.ord = "less") = LexLess(val.oid, oval.oid)
        /\ (res.ord = "greater") = LexLess(oval.oid, val.oid)
        /\ (res.ord = "equal") = (Differ(val.oid, oval.oid) = {})
        /\ res.eq = (Differ(val.oid, oval.oid) = {})
        /\ res.hash = res.eq
        /\ (res.ord = "less") = LexLess(HexString(val.oid), HexString(oval.oid))

C18_Witness ==
    /\ res.tag = "cmp" /\ res.ord = "less"
    /\ FirstDiffer(val.oid, oval.oid) = 10
    /\ val.oid[OidLen] > oval.oid[OidLen]

\* the offset of the RFC-3339 string s, in seconds east of UTC: "Z", or a sign,
\* hours, a colon and minutes after the 19 characters of the date and time
OffsetOfText(s) ==
    IF s[20] = 90 THEN 0
    ELSE (IF s[20] = 45 THEN -1 ELSE 1) * (Num2(s, 21) * 3600 + Num2(s, 24) * 60)
\* the whole seconds from the epoch to the instant the RFC-3339 string s
\* denotes, its offset taken off
InstantOfText(s) ==
    LET local == Num2(s, 12) * 3600 + Num2(s, 15) * 60 + Num2(s, 18) - OffsetOfText(s)
    IN  SecondsOfDay(DaysFromCivil(Num4(s, 1), Num2(s, 6), Num2(s, 9)) + (local \div 86400),
                     local % 86400)
\* the instant a field on the wire denotes
InstantOf(w) == IF w.shape = "str" THEN InstantOfText(w.text) ELSE w.bits

\* C12: a Timestamp is normalized to UTC and compared by instant: two fields
\* that denote the same instant, as RFC-3339 strings with any UTC offsets or
\* as epoch seconds, decode to values that are equal under ==, under the
\* ordering and under the hash; otherwise the earlier instant is the lesser.
C12_ComparedByInstant ==
    res.tag = "cmp" =>
        /\ res.eq = (InstantOf(input) = InstantOf(other))
        /\ (res.ord = "equal") = (InstantOf(input) = InstantOf(other))
        /\ res.hash = (InstantOf(input) = InstantOf(other))
        /\ (res.ord = "less") =
              (Le64(InstantOf(input), InstantOf(other)) /\ InstantOf(input) # InstantOf(other))
        /\ EpochOf(val.time) = InstantOf(input)
        /\ EpochOf(oval.time) = InstantOf(other)

C12_Witness ==
    /\ res.tag = "cmp" /\ res.eq /\ res.ord = "equal"
    /\ input.shape = "str" /\ other.shape = "str"
    /\ OffsetOfText(input.text) > 0 /\ OffsetOfText(other.text) < 0
    /\ Num2(input.text, 9) # Num2(other.text, 9)

(***************************************************************************)
(* Properties of the payloads.                                             *)
(***************************************************************************)
\* a well-formed Oid field and a well-formed DateTime field, on a
\* human-readable transport
GoodOidWire(w) == w.shape = "str" /\ IsHex40(w.text)
GoodTimeWire(w) ==
    \/ w.shape = "str" /\ IsCanonical(w.text)
    \/ w.shape = "i64" /\ LegalInstant(w.bits)
\* the entries with a malformed Oid or DateTime among the entries es
BadIn(es, oidKeys, timeKeys) ==
    {i \in 1..Len(es) :
        \/ es[i].key \in oidKeys /\ ~GoodOidWire(es[i].value)
        \/ es[i].key \in timeKeys /\ ~GoodTimeWire(es[i].value)}
BadCommit(w) == BadIn(w.entries, {"id", "tree_id"}, {"timestamp"})
\* the elements of the commits of the PushEvent w that hold a malformed field
BadCommitsOf(w) ==
    {<<i, j>> \in (1..Len(w.entries)) \X (1..2) :
        /\ w.entries[i].key = "commits"
        /\ j <= Len(w.entries[i].value.entries)
        /\ BadCommit(w.entries[i].value.entries[j].value) # {}}
\* some Oid or DateTime field of the payload w, read as the struct ty, is
\* malformed
Malformed(ty, w) ==
    IF ty = "PushCommit" THEN BadCommit(w) # {}
    ELSE BadIn(w.entries, {"before", "after"}, {}) # {} \/ BadCommitsOf(w) # {}
\* the errors a malformed Oid or DateTime gives
IsCodecError(e) == e.kind \in {"invalid_length", "invalid_char", "invalid_type", "custom"}
\* the error of entry i of the commit w, decoded alone
CodecErrorAt(w, i) ==
    IF w.entries[i].key = "timestamp" THEN TimeVisit(w.entries[i].value).err
    ELSE OidVisit(w.entries[i].value).err
NoKeyTwice(es) == \A i, j \in 1..Len(es) : es[i].key = es[j].key => i = j

Alone(c) ==
    IF c.op = "serialize" THEN [out |-> OidSerialize(c.self, c.human), val |-> NoVal]
    ELSE IF c.op = "visit_bytes" THEN [out |-> NoWire, val |-> OidVisitBytes(c.arg.bytes)]
    ELSE [out |-> NoWire, val |-> TimeVisitI64(c.arg.bits)]
\* C20: the codecs are pure and stateless: whatever the interleaving of the
\* calls in flight, each call returns what the same call returns when it runs
\* alone, and two calls with the same input return the same result.
C20_CallsDoNotInterfere ==
    \A k \in DOMAIN calls :
        calls[k].pc = "done" =>
            /\ calls[k].ret = Alone(calls[k])
            /\ \A j \in DOMAIN calls :
                  (calls[j].pc = "done" /\ calls[j].op = calls[k].op
                      /\ calls[j].human = calls[k].human /\ calls[j].self = calls[k].self
                      /\ calls[j].arg = calls[k].arg) => calls[j].ret = calls[k].ret

C20_Witness ==
    /\ DOMAIN calls = Callers
    /\ \A k \in Callers : calls[k].pc = "done" /\ calls[k].op = "serialize" /\ calls[k].human
    /\ calls[1].self # calls[2].self
    /\ calls[1].ret.out.text # calls[2].ret.out.text

(***************************************************************************)
(* Events and the App installation they belong to.                         *)
(***************************************************************************)
MaxInstallationId == 2

\* Option<T>
None == <<>>
Some(x) == <<x>>
\* a call that has not been made, and the value a call returned
Pending == [done |-> FALSE, ret |-> <<>>]
Returned(r) == [done |-> TRUE, ret |-> <<r>>]

\* the variants of enum Event and the payload struct each one wraps
EventVariants ==
    {"Ping", "CheckRun", "CheckSuite", "CommitComment", "Create", "Delete",
     "GitHubAppAuthorization", "Gollum", "Installation", "InstallationRepositories",
     "IntegrationInstallation", "IntegrationInstallationRepositories", "IssueComment",
     "Issues", "Label", "PullRequest", "PullRequestReview", "PullRequestReviewComment",
     "Push", "Repository", "Watch"}
\* the payloads whose field is `installation: InstallationId` or
\* `installation: Installation`
InstallationRequired ==
    {"CheckRun", "CheckSuite", "GitHubAppAuthorization", "Installation",
     "InstallationRepositories"}
\* the payloads with no installation field
InstallationNone == {"Ping", "IntegrationInstallation", "IntegrationInstallationRepositories"}
\* the payloads whose field is `installation: Option<InstallationId>`
InstallationOptional == (EventVariants \ InstallationRequired) \ InstallationNone

\* enum CheckSuiteEventAction
CheckSuiteEventAction == {"Completed", "Requested", "Rerequested"}

\* is_requested answering for Requested alone
IsRequestedOnlyRequested(action) == action = "Requested"

\* CheckSuiteEventAction::is_completed
IsCompleted(action) == IF action = "Completed" THEN FALSE ELSE FALSE

\* CheckSuiteEventAction::is_requested
IsRequested(action) == IF action \in {"Requested", "Rerequested"} THEN TRUE ELSE FALSE

\* CheckSuiteEvent::is_requested
CheckSuiteEventIsRequested(e) == IsRequested(e.action)

\* self.installation.map(|i| i.id)
MapId(opt) == IF opt = None THEN None ELSE Some(opt[1].id)

\* the impls of AppEvent for the payload structs: fn installation(&self)
PayloadInstallation(e) ==
    IF e.type \in InstallationRequired THEN Some(e.installation[1].id)
    ELSE IF e.type \in InstallationNone THEN None
    ELSE MapId(e.installation)

\* Event::installation with the arms of the optional payloads answering None
EventInstallationRequiredOnly(ev) ==
    IF ev.variant \in InstallationRequired THEN PayloadInstallation(ev.payload) ELSE None

\* impl AppEvent for Event: every arm is `Event::V(e) => e.installation()`
EventInstallation(ev) ==
    IF ev.variant \in EventVariants THEN PayloadInstallation(ev.payload) ELSE None

\* the installation records of the payloads: the id and the id of the app
InstallationSamples == {[id |-> n, app_id |-> 7] : n \in 0..MaxInstallationId}
Payload(t, a, i) == [type |-> t, action |-> a, installation |-> i]
EventOf(t, a, i) == [variant |-> t, payload |-> Payload(t, a, i)]
EventSamples ==
    {EventOf("CheckSuite", a, Some(i)) : a \in CheckSuiteEventAction, i \in InstallationSamples}
    \cup {EventOf(t, "", Some(i)) : t \in InstallationRequired \ {"CheckSuite"},
                                     i \in InstallationSamples}
    \cup {EventOf(t, "", Some(i)) : t \in InstallationOptional, i \in InstallationSamples}
    \cup {EventOf(t, "", None) : t \in InstallationOptional \cup InstallationNone}

InitEvent ==
    /\ input \in EventSamples
    /\ human = TRUE /\ dec = "none" /\ hint = "none" /\ enc = "none"
    /\ val = Pending /\ out = Pending /\ back = Pending
    /\ other = NoWire /\ oval = Pending /\ res = Pending /\ calls = <<>>

\* event.installation()
CallEventInstallation ==
    /\ res' = Returned(EventInstallation(input))
    /\ UNCHANGED <<input, human, val, dec, hint, out, enc, back, other, oval, calls>>

\* e.installation() on the payload the event wraps
CallPayloadInstallation ==
    /\ oval' = Returned(PayloadInstallation(input.payload))
    /\ UNCHANGED <<input, human, val, dec, hint, out, enc, back, other, res, calls>>

\* event.action.is_completed()
CallIsCompleted ==
    /\ input.variant = "CheckSuite"
    /\ val' = Returned(IsCompleted(input.payload.action))
    /\ UNCHANGED <<input, human, dec, hint, out, enc, back, other, oval, res, calls>>

\* event.action.is_requested()
CallIsRequested ==
    /\ input.variant = "CheckSuite"
    /\ back' = Returned(IsRequested(input.payload.action))
    /\ UNCHANGED <<input, human, val, dec, hint, out, enc, other, oval, res, calls>>

\* event.is_requested()
CallEventIsRequested ==
    /\ input.variant = "CheckSuite"
    /\ out' = Returned(CheckSuiteEventIsRequested(input.payload))
    /\ UNCHANGED <<input, human, val, dec, hint, enc, back, other, oval, res, calls>>

NextEvent ==
    \/ CallEventInstallation
    \/ CallPayloadInstallation
    \/ CallIsCompleted
    \/ CallIsRequested
    \/ CallEventIsRequested

SpecEvent == InitEvent /\ [][NextEvent]_vars

\* C21: is_completed answers true for Completed and false for Requested and
\* Rerequested.
C21_IsCompletedIffCompleted ==
    val.done => (val.ret[1] <=> input.payload.action = "Completed")

\* C22: is_requested answers true exactly for Requested and Rerequested, and
\* CheckSuiteEvent::is_requested answers what is_requested answers on the
\* action of the event.
C22_IsRequestedIffRequested ==
    /\ back.done => (back.ret[1] <=> input.payload.action # "Completed")
    /\ out.done => (out.ret[1] <=> input.payload.action # "Completed")
    /\ (back.done /\ out.done) => out.ret = back.ret

C22_Witness ==
    /\ back.done /\ out.done
    /\ input.payload.action = "Rerequested"
    /\ out.ret[1]

\* C25: Event::installation answers what installation() of the wrapped
\* payload answers: the id of the installation record where the payload
\* carries one, None where an optional one is absent, and None always for
\* Ping, IntegrationInstallation and IntegrationInstallationRepositories.
C25_EventInstallationIsPayloads ==
    /\ (res.done /\ oval.done) => res.ret = oval.ret
    /\ res.done =>
          res.ret[1] = IF input.variant \in InstallationNone THEN None
                       ELSE IF input.payload.installation = None THEN None
                       ELSE Some(input.payload.installation[1].id)

C25_Witness ==
    /\ res.done /\ oval.done
    /\ input.variant = "Push"
    /\ res.ret[1] = Some(MaxInstallationId)

(***************************************************************************)
(* API previews.                                                           *)
(***************************************************************************)
\* enum Preview: each variant with its identifier as it is spelled
PreviewIdent ==
    [
      Wyandotte |->
        <<87, 121, 97, 110, 100, 111, 116, 116, 101>>,   \* "Wyandotte"
      BarredRock |->
        <<66, 97, 114, 114, 101, 100, 82, 111, 99, 107>>,   \* "BarredRock"
      AntMan |->
        <<65, 110, 116, 77, 97, 110>>,   \* "AntMan"
      SquirrelGirl |->
        <<83, 113, 117, 105, 114, 114, 101, 108, 71, 105, 114, 108>>,   \* "SquirrelGirl"
      Mockingbird |->
        <<77, 111, 99, 107, 105, 110, 103, 98, 105, 114, 100>>,   \* "Mockingbird"
      MisterFantastic |->
        <<77, 105, 115, 116, 101, 114, 70, 97, 110, 116, 97, 115, 116, 105, 99>>,   \* "MisterFantastic"
      MachineMan |->
        <<77, 97, 99, 104, 105, 110, 101, 77, 97, 110>>,   \* "MachineMan"
      Inertia |->
        <<73, 110, 101, 114, 116, 105, 97>>,   \* "Inertia"
      Cloak |->
        <<67, 108, 111, 97, 107>>,   \* "Cloak"
      BlackPanther |->
        <<66, 108, 97, 99, 107, 80, 97, 110, 116, 104, 101, 114>>,   \* "BlackPanther"
      GiantSentryFist |->
        <<71, 105, 97, 110, 116, 83, 101, 110, 116, 114, 121, 70, 105, 115, 116>>,   \* "GiantSentryFist"
      Mercy |->
        <<77, 101, 114, 99, 121>>,   \* "Mercy"
      ScarletWitch |->
        <<83, 99, 97, 114, 108, 101, 116, 87, 105, 116, 99, 104>>,   \* "ScarletWitch"
      Hellcat |->
        <<72, 101, 108, 108, 99, 97, 116>>,   \* "Hellcat"
      Nightshade |->
        <<78, 105, 103, 104, 116, 115, 104, 97, 100, 101>>,   \* "Nightshade"
      SailorV |->
        <<83, 97, 105, 108, 111, 114, 86>>,   \* "SailorV"
      Dazzler |->
        <<68, 97, 122, 122, 108, 101, 114>>,   \* "Dazzler"
      Echo |->
        <<69, 99, 104, 111>>,   \* "Echo"
      Symmetra |->
        <<83, 121, 109, 109, 101, 116, 114, 97>>,   \* "Symmetra"
      Zzzax |->
        <<90, 122, 122, 97, 120>>,   \* "Zzzax"
      LukeCage |->
        <<76, 117, 107, 101, 67, 97, 103, 101>>,   \* "LukeCage"
      Hagar |->
        <<72, 97, 103, 97, 114>>,   \* "Hagar"
      Antiope |->
        <<65, 110, 116, 105, 111, 112, 101>>,   \* "Antiope"
      Starfox |->
        <<83, 116, 97, 114, 102, 111, 120>>,   \* "Starfox"
      Fury |->
        <<70, 117, 114, 121>>,   \* "Fury"
      Flash |->
        <<70, 108, 97, 115, 104>>,   \* "Flash"
      Surtur |->
        <<83, 117, 114, 116, 117, 114>>,   \* "Surtur"
      Corsair |->
        <<67, 111, 114, 115, 97, 105, 114>>,   \* "Corsair"
      Sombra |->
        <<83, 111, 109, 98, 114, 97>>,   \* "Sombra"
      ShadowCat |->
        <<83, 104, 97, 100, 111, 119, 67, 97, 116>>,   \* "ShadowCat"
      Switcheroo |->
        <<83, 119, 105, 116, 99, 104, 101, 114, 111, 111>>,   \* "Switcheroo"
      Groot |->
        <<71, 114, 111, 111, 116>>,   \* "Groot"
      Gambit |->
        <<71, 97, 109, 98, 105, 116>> ]   \* "Gambit"

\* enum Preview
Preview == DOMAIN PreviewIdent

\* the arms of the match in Preview::name
PreviewNameArms ==
    [
      Wyandotte |->
        <<119, 121, 97, 110, 100, 111, 116, 116, 101>>,   \* "wyandotte"
      BarredRock |->
        <<98, 97, 114, 114, 101, 100, 45, 114, 111, 99, 107>>,   \* "barred-rock"
      AntMan |->
        <<97, 110, 116, 45, 109, 97, 110>>,   \* "ant-man"
      SquirrelGirl |->
        <<115, 113, 117, 105, 114, 114, 101, 108, 45, 103, 105, 114, 108>>,   \* "squirrel-girl"
      Mockingbird |->
        <<109, 111, 99, 107, 105, 110, 103, 45, 98, 105, 114, 100>>,   \* "mocking-bird"
      MisterFantastic |->
        <<109, 105, 115, 116, 101, 114, 45, 102, 97, 110, 116, 97, 115, 116, 105, 99>>,   \* "mister-fantastic"
      MachineMan |->
        <<109, 97, 99, 104, 105, 110, 101, 45, 109, 97, 110>>,   \* "machine-man"
      Inertia |->
        <<105, 110, 101, 114, 116, 105, 97>>,   \* "inertia"
      Cloak |->
        <<99, 108, 111, 99, 107>>,   \* "clock"
      BlackPanther |->
        <<98, 108, 97, 99, 107, 45, 112, 97, 110, 116, 104, 101, 114>>,   \* "black-panther"
      GiantSentryFist |->
        <<103, 105, 97, 110, 116, 45, 115, 101, 110, 116, 114, 121, 45, 102, 105, 115, 116>>,   \* "giant-sentry-fist"
      Mercy |->
        <<109, 101, 114, 99, 121>>,   \* "mercy"
      ScarletWitch |->
        <<115, 99, 97, 114, 108, 101, 116, 45, 119, 105, 116, 99, 104>>,   \* "scarlet-witch"
      Hellcat |->
        <<104, 101, 108, 108, 99, 97, 116>>,   \* "hellcat"
      Nightshade |->
        <<110, 105, 103, 104, 116, 115, 104, 97, 100, 101>>,   \* "nightshade"
      SailorV |->
        <<115, 97, 105, 108, 111, 114, 45, 118>>,   \* "sailor-v"
      Dazzler |->
        <<100, 97, 122, 122, 108, 101, 114>>,   \* "dazzler"
      Echo |->
        <<101, 99, 104, 111>>,   \* "echo"
      Symmetra |->
        <<115, 121, 109, 109, 101, 116, 114, 97>>,   \* "symmetra"
      Zzzax |->
        <<122, 122, 122, 97, 120>>,   \* "zzzax"
      LukeCage |->
        <<108, 117, 107, 101, 45, 99, 97, 103, 101>>,   \* "luke-cage"
      Hagar |->
        <<104, 97, 103, 97, 114>>,   \* "hagar"
      Antiope |->
        <<97, 110, 116, 105, 111, 112, 101>>,   \* "antiope"
      Starfox |->
        <<115, 116, 97, 114, 102, 111, 120>>,   \* "starfox"
      Fury |->
        <<102, 117, 114, 121>>,   \* "fury"
      Flash |->
        <<102, 108, 97, 115, 104>>,   \* "flash"
      Surtur |->
        <<115, 117, 114, 116, 117, 114>>,   \* "surtur"
      Corsair |->
        <<99, 111, 114, 115, 97, 105, 114>>,   \* "corsair"
      Sombra |->
        <<115, 111, 109, 98, 114, 97>>,   \* "sombra"
      ShadowCat |->
        <<115, 104, 97, 100, 111, 119, 45, 99, 97, 116>>,   \* "shadow-cat"
      Switcheroo |->
        <<115, 119, 105, 116, 99, 104, 101, 114, 111, 111>>,   \* "switcheroo"
      Groot |->
        <<103, 114, 111, 111, 116>>,   \* "groot"
      Gambit |->
        <<103, 97, 109, 98, 105, 116>> ]   \* "gambit"

\* Preview::name
PreviewName(p) == PreviewNameArms[p]

\* Preview::media_type: format!("application/vnd.github.{}-preview+json", self.name())
PreviewMediaType(p) ==
    <<97, 112, 112, 108, 105, 99, 97, 116, 105, 111, 110, 47, 118, 110, 100, 46, 103, 105, 116, 104, 117, 98, 46>>   \* "application/vnd.github."
    \o PreviewName(p)
    \o <<45, 112, 114, 101, 118, 105, 101, 119, 43, 106, 115, 111, 110>>   \* "-preview+json"

\* <Preview as Display>::fmt: f.write_str(self.name())
PreviewDisplay(p) == PreviewName(p)

InitPreview ==
    /\ input \in Preview
    /\ human = TRUE /\ dec = "none" /\ hint = "none" /\ enc = "none"
    /\ val = Pending /\ out = Pending /\ back = Pending
    /\ other = NoWire /\ oval = Pending /\ res = Pending /\ calls = <<>>

\* preview.name()
CallPreviewName ==
    /\ val' = Returned(PreviewName(input))
    /\ UNCHANGED <<input, human, dec, hint, out, enc, back, other, oval, res, calls>>

\* preview.to_string()
CallPreviewDisplay ==
    /\ out' = Returned(PreviewDisplay(input))
    /\ UNCHANGED <<input, human, val, dec, hint, enc, back, other, oval, res, calls>>

\* preview.media_type()
CallPreviewMediaType ==
    /\ back' = Returned(PreviewMediaType(input))
    /\ UNCHANGED <<input, human, val, dec, hint, out, enc, other, oval, res, calls>>

NextPreview ==
    \/ CallPreviewName
    \/ CallPreviewDisplay
    \/ CallPreviewMediaType

SpecPreview == InitPreview /\ [][NextPreview]_vars

IsUpper(c) == c \in 65..90
LowerOf(c) == IF IsUpper(c) THEN c + 32 ELSE c
\* the words of an identifier in lowercase, joined by the character sep
RECURSIVE JoinWords(_, _, _)
JoinWords(ident, i, sep) ==
    IF i > Len(ident) THEN <<>>
    ELSE (IF IsUpper(ident[i]) /\ i > 1 THEN <<sep>> ELSE <<>>)
            \o <<LowerOf(ident[i])>> \o JoinWords(ident, i + 1, sep)
KebabCase(ident) == JoinWords(ident, 1, 45)

\* C23: for every Preview variant, name is the kebab-case form of the name of
\* the variant; Display prints that string and media_type is
\* "application/vnd.github." + name + "-preview+json".
C23_NameIsKebabCase ==
    /\ val.done => val.ret[1] = KebabCase(PreviewIdent[input])
    /\ out.done => out.ret[1] = KebabCase(PreviewIdent[input])
    /\ back.done =>
          back.ret[1] = <<97, 112, 112, 108, 105, 99, 97, 116, 105, 111, 110, 47, 118, 110, 100, 46, 103, 105, 116, 104, 117, 98, 46>>
                            \o KebabCase(PreviewIdent[input])
                            \o <<45, 112, 114, 101, 118, 105, 101, 119, 43, 106, 115, 111, 110>>

(***************************************************************************)
(* User payloads read from JSON text.                                      *)
(***************************************************************************)
MaxUserId == 2

\* the members of the object of test_user_parsing, in their order
TestData ==
    <<
       \* "hubot"
       Entry("login", JsonStr(<<104, 117, 98, 111, 116>>)),
       Entry("id", JsonNum(FALSE, 1, FALSE)),
       \* "MDQ6VXNlcjE="
       Entry("node_id", JsonStr(<<77, 68, 81, 54, 86, 88, 78, 108, 99, 106, 69, 61>>)),
       \* "https://github.com/images/error/hubot_happy.gif"
       Entry("avatar_url", JsonStr(<<104, 116, 116, 112, 115, 58, 47, 47, 103, 105, 116,
                                     104, 117, 98, 46, 99, 111, 109, 47, 105, 109, 97,
                                     103, 101, 115, 47, 101, 114, 114, 111, 114, 47, 104,
                                     117, 98, 111, 116, 95, 104, 97, 112, 112, 121, 46,
                                     103, 105, 102>>)),
       \* ""
       Entry("gravatar_id", JsonStr(<<>>)),
       \* "https://api.github.com/users/hubot"
       Entry("url", JsonStr(<<104, 116, 116, 112, 115, 58, 47, 47, 97, 112, 105, 46, 103,
                              105, 116, 104, 117, 98, 46, 99, 111, 109, 47, 117, 115,
                              101, 114, 115, 47, 104, 117, 98, 111, 116>>)),
       \* "https://github.com/hubot"
       Entry("html_url", JsonStr(<<104, 116, 116, 112, 115, 58, 47, 47, 103, 105, 116,
                                   104, 117, 98, 46, 99, 111, 109, 47, 104, 117, 98, 111,
                                   116>>)),
       \* "https://api.github.com/users/hubot/followers"
       Entry("followers_url", JsonStr(<<104, 116, 116, 112, 115, 58, 47, 47, 97, 112,
                                        105, 46, 103, 105, 116, 104, 117, 98, 46, 99,
                                        111, 109, 47, 117, 115, 101, 114, 115, 47, 104,
                                        117, 98, 111, 116, 47, 102, 111, 108, 108, 111,
                                        119, 101, 114, 115>>)),
       \* "https://api.github.com/users/hubot/following{/other_user}"
       Entry("following_url", JsonStr(<<104, 116, 116, 112, 115, 58, 47, 47, 97, 112,
                                        105, 46, 103, 105, 116, 104, 117, 98, 46, 99,
                                        111, 109, 47, 117, 115, 101, 114, 115, 47, 104,
                                        117, 98, 111, 116, 47, 102, 111, 108, 108, 111,
                                        119, 105, 110, 103, 123, 47, 111, 116, 104, 101,
                                        114, 95, 117, 115, 101, 114, 125>>)),
       \* "https://api.github.com/users/hubot/gists{/gist_id}"
       Entry("gists_url", JsonStr(<<104, 116, 116, 112, 115, 58, 47, 47, 97, 112, 105,
                                    46, 103, 105, 116, 104, 117, 98, 46, 99, 111, 109,
                                    47, 117, 115, 101, 114, 115, 47, 104, 117, 98, 111,
                                    116, 47, 103, 105, 115, 116, 115, 123, 47, 103, 105,
                                    115, 116, 95, 105, 100, 125>>)),
       \* "https://api.github.com/users/hubot/starred{/owner}{/repo}"
       Entry("starred_url", JsonStr(<<104, 116, 116, 112, 115, 58, 47, 47, 97, 112, 105,
                                      46, 103, 105, 116, 104, 117, 98, 46, 99, 111, 109,
                                      47, 117, 115, 101, 114, 115, 47, 104, 117, 98, 111,
                                      116, 47, 115, 116, 97, 114, 114, 101, 100, 123, 47,
                                      111, 119, 110, 101, 114, 125, 123, 47, 114, 101,
                                      112, 111, 125>>)),
       \* "https://api.github.com/users/hubot/subscriptions"
       Entry("subscriptions_url", JsonStr(<<104, 116, 116, 112, 115, 58, 47, 47, 97, 112,
                                            105, 46, 103, 105, 116, 104, 117, 98, 46, 99,
                                            111, 109, 47, 117, 115, 101, 114, 115, 47,
                                            104, 117, 98, 111, 116, 47, 115, 117, 98,
                                            115, 99, 114, 105, 112, 116, 105, 111, 110,
                                            115>>)),
       \* "https://api.github.com/users/hubot/orgs"
       Entry("organizations_url", JsonStr(<<104, 116, 116, 112, 115, 58, 47, 47, 97, 112,
                                            105, 46, 103, 105, 116, 104, 117, 98, 46, 99,
                                            111, 109, 47, 117, 115, 101, 114, 115, 47,
                                            104, 117, 98, 111, 116, 47, 111, 114, 103,
                                            115>>)),
       \* "https://api.github.com/users/hubot/repos"
       Entry("repos_url", JsonStr(<<104, 116, 116, 112, 115, 58, 47, 47, 97, 112, 105,
                                    46, 103, 105, 116, 104, 117, 98, 46, 99, 111, 109,
                                    47, 117, 115, 101, 114, 115, 47, 104, 117, 98, 111,
                                    116, 47, 114, 101, 112, 111, 115>>)),
       \* "https://api.github.com/users/hubot/events{/privacy}"
       Entry("events_url", JsonStr(<<104, 116, 116, 112, 115, 58, 47, 47, 97, 112, 105,
                                     46, 103, 105, 116, 104, 117, 98, 46, 99, 111, 109,
                                     47, 117, 115, 101, 114, 115, 47, 104, 117, 98, 111,
                                     116, 47, 101, 118, 101, 110, 116, 115, 123, 47, 112,
                                     114, 105, 118, 97, 99, 121, 125>>)),
       \* "https://api.github.com/users/hubot/received_events"
       Entry("received_events_url", JsonStr(<<104, 116, 116, 112, 115, 58, 47, 47, 97,
                                              112, 105, 46, 103, 105, 116, 104, 117, 98,
                                              46, 99, 111, 109, 47, 117, 115, 101, 114,
                                              115, 47, 104, 117, 98, 111, 116, 47, 114,
                                              101, 99, 101, 105, 118, 101, 100, 95, 101,
                                              118, 101, 110, 116, 115>>)),
       \* "User"
       Entry("type", JsonStr(<<85, 115, 101, 114>>)),
       Entry("site_admin", JsonBool(TRUE)) >>

\* the members es with the value of the key k replaced
WithMember(es, k, w) == [i \in 1..Len(es) |-> IF es[i].key = k THEN Entry(k, w) ELSE es[i]]
\* the members es without the key k
RECURSIVE WithoutMember(_, _)
WithoutMember(es, k) ==
    IF es = <<>> THEN <<>>
    ELSE (IF es[1].key = k THEN <<>> ELSE <<es[1]>>) \o WithoutMember(Tail(es), k)
Reversed(es) == [i \in 1..Len(es) |-> es[Len(es) + 1 - i]]

\* logins: hubot, the empty string, one with an escaped quote (a\"b), one with
\* an escaped solidus (a\/b), and a number in the place of the string
LoginSamples ==
    {JsonStr(<<104, 117, 98, 111, 116>>), JsonStr(<<>>), JsonStr(<<97, 92, 34, 98>>), JsonStr(<<97, 92, 47, 98>>),
     JsonNum(FALSE, 7, FALSE)}
\* ids: 1, 0, the largest the model counts to, -1, 1.0 and "1"
IdSamples ==
    {JsonNum(FALSE, 1, FALSE), JsonNum(FALSE, 0, FALSE), JsonNum(FALSE, MaxUserId, FALSE),
     JsonNum(TRUE, 1, FALSE), JsonNum(FALSE, 1, TRUE), JsonStr(<<49>>)}
\* gravatar ids: the empty string, a URL template ({/a}), a line break (\n)
GravatarSamples == {JsonStr(<<>>), JsonStr(<<123, 47, 97, 125>>), JsonStr(<<92, 110>>)}
AdminSamples == {JsonBool(TRUE), JsonBool(FALSE), JsonStr(<<116, 114, 117, 101>>)}

UserMembers ==
    {WithMember(WithMember(WithMember(WithMember(TestData, "login", l), "id", i),
                           "gravatar_id", g), "site_admin", a) :
        l \in LoginSamples, i \in IdSamples, g \in GravatarSamples, a \in AdminSamples}
\* the objects: as the test has them, without node_id and type, with node_id
\* holding an escape or an object, in the reverse order, with a member
\* missing, and with login given twice
UserObjects ==
    {MapWire(es) : es \in UserMembers}
    \cup {MapWire(WithoutMember(WithoutMember(es, "node_id"), "type")) : es \in UserMembers}
    \cup {MapWire(WithMember(es, "node_id", w)) :
            es \in UserMembers, w \in {JsonStr(<<92, 110>>), MapWire(<<>>)}}
    \cup {MapWire(Reversed(es)) : es \in UserMembers}
    \cup {MapWire(WithoutMember(TestData, k)) : k \in FieldNames(UserFields)}
    \cup {MapWire(TestData \o <<Entry("login", l)>>) : l \in LoginSamples}

InitUser ==
    /\ input \in UserObjects
    /\ human = TRUE
    /\ val = NoVal /\ dec = "none" /\ hint = "none"
    /\ out = NoWire /\ enc = "none" /\ back = NoVal
    /\ other = NoWire /\ oval = NoVal /\ res = NoRes /\ calls = <<>>

\* serde_json::from_str::<User>(text)
DeserializeUser ==
    /\ input.shape = "map"
    /\ dec = "none"
    /\ res' = Decoded(DeserializeValue("User", input))
    /\ dec' = "User"
    /\ UNCHANGED <<input, human, val, hint, out, enc, back, other, oval, calls>>

NextUser == DeserializeUser

SpecUser == InitUser /\ [][NextUser]_vars

\* the member of the object w with the key k, and what it holds
MemberOf(w, k) == w.entries[CHOOSE i \in 1..Len(w.entries) : w.entries[i].key = k].value
JsonValue(w) ==
    IF w.shape = "str" THEN w.text ELSE IF w.shape = "bool" THEN w.flag ELSE w.bits
\* a string where the field is a string, a number where it is a number, a
\* boolean where it is a boolean
JsonTyped(ty, w) ==
    IF ty = "&str" THEN w.shape = "str"
    ELSE IF ty = "bool" THEN w.shape = "bool"
    ELSE w.shape \in {"u64", "i64", "f64"}
HasEveryField(w) ==
    \A i \in 1..Len(UserFields) :
        /\ \E j \in 1..Len(w.entries) : w.entries[j].key = UserFields[i].name
        /\ JsonTyped(UserFields[i].ty, MemberOf(w, UserFields[i].name))
FieldsVerbatim ==
    /\ res.tag = "struct"
    /\ \A i \in 1..Len(UserFields) :
          res.body[1][UserFields[i].name] = JsonValue(MemberOf(input, UserFields[i].name))

Borrowable(w) ==
    /\ NoKeyTwice(w.entries)
    /\ \A i \in 1..Len(UserFields) :
          LET m == MemberOf(w, UserFields[i].name)
          IN  /\ UserFields[i].ty = "&str" => m.borrowed
              /\ UserFields[i].ty = "u64" => m.shape = "u64"

C26_NeverAmbiguous ==
    SignedDecoded =>
        \/ val.tag = "time" /\ EpochOf(val.time) = input.bits
        \/ /\ val.tag = "err"
           /\ val.err.kind = "custom"
           /\ val.err.exp = "value is not a legal timestamp: {}"

C26_Witness ==
    /\ dec = "visit_i64"
    /\ val.tag = "time"
    /\ val.time.secs = 0
    /\ input.bits.neg

(***************************************************************************)
(* Event types and their names.                                            *)
(***************************************************************************)
\* enum EventType: each variant with its identifier as it is spelled
EventTypeIdent ==
    [
      \* "Wildcard"
      Wildcard |->
        <<87, 105, 108, 100, 99, 97, 114, 100>>,
      \* "Ping"
      Ping |->
        <<80, 105, 110, 103>>,
      \* "CheckRun"
      CheckRun |->
        <<67, 104, 101, 99, 107, 82, 117, 110>>,
      \* "CheckSuite"
      CheckSuite |->
        <<67, 104, 101, 99, 107, 83, 117, 105, 116, 101>>,
      \* "CommitComment"
      CommitComment |->
        <<67, 111, 109, 109, 105, 116, 67, 111, 109, 109, 101, 110, 116>>,
      \* "ContentReference"
      ContentReference |->
        <<67, 111, 110, 116, 101, 110, 116, 82, 101, 102, 101, 114, 101, 110, 99, 101>>,
      \* "Create"
      Create |->
        <<67, 114, 101, 97, 116, 101>>,
      \* "Delete"
      Delete |->
        <<68, 101, 108, 101, 116, 101>>,
      \* "Deployment"
      Deployment |->
        <<68, 101, 112, 108, 111, 121, 109, 101, 110, 116>>,
      \* "DeploymentStatus"
      DeploymentStatus |->
        <<68, 101, 112, 108, 111, 121, 109, 101, 110, 116, 83, 116, 97, 116, 117, 115>>,
      \* "Fork"
      Fork |->
        <<70, 111, 114, 107>>,
      \* "GitHubAppAuthorization"
      GitHubAppAuthorization |->
        <<71, 105, 116, 72, 117, 98, 65, 112, 112, 65, 117, 116, 104, 111, 114, 105, 122, 97, 116, 105, 111, 110>>,
      \* "Gollum"
      Gollum |->
        <<71, 111, 108, 108, 117, 109>>,
      \* "Installation"
      Installation |->
        <<73, 110, 115, 116, 97, 108, 108, 97, 116, 105, 111, 110>>,
      \* "IntegrationInstallation"
      IntegrationInstallation |->
        <<73, 110, 116, 101, 103, 114, 97, 116, 105, 111, 110, 73, 110, 115, 116, 97, 108, 108, 97, 116, 105, 111, 110>>,
      \* "InstallationRepositories"
      InstallationRepositories |->
        <<73, 110, 115, 116, 97, 108, 108, 97, 116, 105, 111, 110, 82, 101, 112, 111, 115, 105, 116, 111, 114, 105, 101, 115>>,
      \* "IntegrationInstallationRepositories"
      IntegrationInstallationRepositories |->
        <<73, 110, 116, 101, 103, 114, 97, 116, 105, 111, 110, 73, 110, 115, 116, 97, 108, 108, 97, 116, 105, 111, 110, 82, 101, 112, 111, 115, 105, 116, 111, 114, 105, 101, 115>>,
      \* "IssueComment"
      IssueComment |->
        <<73, 115, 115, 117, 101, 67, 111, 109, 109, 101, 110, 116>>,
      \* "Issues"
      Issues |->
        <<73, 115, 115, 117, 101, 115>>,
      \* "Label"
      Label |->
        <<76, 97, 98, 101, 108>>,
      \* "MarketplacePurchase"
      MarketplacePurchase |->
        <<77, 97, 114, 107, 101, 116, 112, 108, 97, 99, 101, 80, 117, 114, 99, 104, 97, 115, 101>>,
      \* "Member"
      Member |->
        <<77, 101, 109, 98, 101, 114>>,
      \* "Membership"
      Membership |->
        <<77, 101, 109, 98, 101, 114, 115, 104, 105, 112>>,
      \* "Milestone"
      Milestone |->
        <<77, 105, 108, 101, 115, 116, 111, 110, 101>>,
      \* "Organization"
      Organization |->
        <<79, 114, 103, 97, 110, 105, 122, 97, 116, 105, 111, 110>>,
      \* "OrgBlock"
      OrgBlock |->
        <<79, 114, 103, 66, 108, 111, 99, 107>>,
      \* "PageBuild"
      PageBuild |->
        <<80, 97, 103, 101, 66, 117, 105, 108, 100>>,
      \* "ProjectCard"
      ProjectCard |->
        <<80, 114, 111, 106, 101, 99, 116, 67, 97, 114, 100>>,
      \* "ProjectColumn"
      ProjectColumn |->
        <<80, 114, 111, 106, 101, 99, 116, 67, 111, 108, 117, 109, 110>>,
      \* "Project"
      Project |->
        <<80, 114, 111, 106, 101, 99, 116>>,
      \* "Public"
      Public |->
        <<80, 117, 98, 108, 105, 99>>,
      \* "PullRequest"
      PullRequest |->
        <<80, 117, 108, 108, 82, 101, 113, 117, 101, 115, 116>>,
      \* "PullRequestReviewComment"
      PullRequestReviewComment |->
        <<80, 117, 108, 108, 82, 101, 113, 117, 101, 115, 116, 82, 101, 118, 105, 101, 119, 67, 111, 109, 109, 101, 110, 116>>,
      \* "PullRequestReview"
      PullRequestReview |->
        <<80, 117, 108, 108, 82, 101, 113, 117, 101, 115, 116, 82, 101, 118, 105, 101, 119>>,
      \* "Push"
      Push |->
        <<80, 117, 115, 104>>,
      \* "Release"
      Release |->
        <<82, 101, 108, 101, 97, 115, 101>>,
      \* "Repository"
      Repository |->
        <<82, 101, 112, 111, 115, 105, 116, 111, 114, 121>>,
      \* "RepositoryImport"
      RepositoryImport |->
        <<82, 101, 112, 111, 115, 105, 116, 111, 114, 121, 73, 109, 112, 111, 114, 116>>,
      \* "RepositoryVulnerabilityAlert"
      RepositoryVulnerabilityAlert |->
        <<82, 101, 112, 111, 115, 105, 116, 111, 114, 121, 86, 117, 108, 110, 101, 114, 97, 98, 105, 108, 105, 116, 121, 65, 108, 101, 114, 116>>,
      \* "SecurityAdvisory"
      SecurityAdvisory |->
        <<83, 101, 99, 117, 114, 105, 116, 121, 65, 100, 118, 105, 115, 111, 114, 121>>,
      \* "Status"
      Status |->
        <<83, 116, 97, 116, 117, 115>>,
      \* "Team"
      Team |->
        <<84, 101, 97, 109>>,
      \* "TeamAdd"
      TeamAdd |->
        <<84, 101, 97, 109, 65, 100, 100>>,
      \* "Watch"
      Watch |->
        <<87, 97, 116, 99, 104>> ]

\* enum EventType
EventType == DOMAIN EventTypeIdent

\* #[serde(rename = "*")] on Wildcard
EventTypeRename == [Wildcard |-> <<42>>]

\* RenameRule::SnakeCase of serde_derive, for #[serde(rename_all = "snake_case")]:
\* an underscore before every uppercase letter but the first, all in lowercase
SnakeCase(ident) == JoinWords(ident, 1, 95)

\* the name the derived Deserialize knows the variant v by
SerdeVariantName(v) ==
    IF v \in DOMAIN EventTypeRename THEN EventTypeRename[v] ELSE SnakeCase(EventTypeIdent[v])

\* the derived <EventType as Deserialize>: the variant whose name the string
\* is, or unknown_variant
EventTypeDeserialize(w) ==
    IF w.shape # "str" THEN Err(InvalidType("enum EventType"))
    ELSE IF \E v \in EventType : SerdeVariantName(v) = w.text
         THEN Ok(CHOOSE v \in EventType : SerdeVariantName(v) = w.text)
    ELSE Err([kind |-> "unknown_variant", n |-> 0, exp |-> "", bits |-> NoInt])

\* the arms of the match in EventType::name
EventTypeNameArms ==
    [
      \* "*"
      Wildcard |->
        <<42>>,
      \* "ping"
      Ping |->
        <<112, 105, 110, 103>>,
      \* "check_run"
      CheckRun |->
        <<99, 104, 101, 99, 107, 95, 114, 117, 110>>,
      \* "check_suite"
      CheckSuite |->
        <<99, 104, 101, 99, 107, 95, 115, 117, 105, 116, 101>>,
      \* "commit_comment"
      CommitComment |->
        <<99, 111, 109, 109, 105, 116, 95, 99, 111, 109, 109, 101, 110, 116>>,
      \* "content_reference"
      ContentReference |->
        <<99, 111, 110, 116, 101, 110, 116, 95, 114, 101, 102, 101, 114, 101, 110, 99, 101>>,
      \* "create"
      Create |->
        <<99, 114, 101, 97, 116, 101>>,
      \* "delete"
      Delete |->
        <<100, 101, 108, 101, 116, 101>>,
      \* "deployment"
      Deployment |->
        <<100, 101, 112, 108, 111, 121, 109, 101, 110, 116>>,
      \* "deployment_status"
      DeploymentStatus |->
        <<100, 101, 112, 108, 111, 121, 109, 101, 110, 116, 95, 115, 116, 97, 116, 117, 115>>,
      \* "fork"
      Fork |->
        <<102, 111, 114, 107>>,
      \* "github_app_authorization"
      GitHubAppAuthorization |->
        <<103, 105, 116, 104, 117, 98, 95, 97, 112, 112, 95, 97, 117, 116, 104, 111, 114, 105, 122, 97, 116, 105, 111, 110>>,
      \* "gollum"
      Gollum |->
        <<103, 111, 108, 108, 117, 109>>,
      \* "installation"
      Installation |->
        <<105, 110, 115, 116, 97, 108, 108, 97, 116, 105, 111, 110>>,
      \* "integration_installation"
      IntegrationInstallation |->
        <<105, 110, 116, 101, 103, 114, 97, 116, 105, 111, 110, 95, 105, 110, 115, 116, 97, 108, 108, 97, 116, 105, 111, 110>>,
      \* "installation_repositories"
      InstallationRepositories |->
        <<105, 110, 115, 116, 97, 108, 108, 97, 116, 105, 111, 110, 95, 114, 101, 112, 111, 115, 105, 116, 111, 114, 105, 101, 115>>,
      \* "integration_installation_repositories"
      IntegrationInstallationRepositories |->
        <<105, 110, 116, 101, 103, 114, 97, 116, 105, 111, 110, 95, 105, 110, 115, 116, 97, 108, 108, 97, 116, 105, 111, 110, 95, 114, 101, 112, 111, 115, 105, 116, 111, 114, 105, 101, 115>>,
      \* "issue_comment"
      IssueComment |->
        <<105, 115, 115, 117, 101, 95, 99, 111, 109, 109, 101, 110, 116>>,
      \* "issues"
      Issues |->
        <<105, 115, 115, 117, 101, 115>>,
      \* "label"
      Label |->
        <<108, 97, 98, 101, 108>>,
      \* "marketplace_purchase"
      MarketplacePurchase |->
        <<109, 97, 114, 107, 101, 116, 112, 108, 97, 99, 101, 95, 112, 117, 114, 99, 104, 97, 115, 101>>,
      \* "member"
      Member |->
        <<109, 101, 109, 98, 101, 114>>,
      \* "membership"
      Membership |->
        <<109, 101, 109, 98, 101, 114, 115, 104, 105, 112>>,
      \* "milestone"
      Milestone |->
        <<109, 105, 108, 101, 115, 116, 111, 110, 101>>,
      \* "organization"
      Organization |->
        <<111, 114, 103, 97, 110, 105, 122, 97, 116, 105, 111, 110>>,
      \* "org_block"
      OrgBlock |->
        <<111, 114, 103, 95, 98, 108, 111, 99, 107>>,
      \* "page_build"
      PageBuild |->
        <<112, 97, 103, 101, 95, 98, 117, 105, 108, 100>>,
      \* "project_card"
      ProjectCard |->
        <<112, 114, 111, 106, 101, 99, 116, 95, 99, 97, 114, 100>>,
      \* "project_column"
      ProjectColumn |->
        <<112, 114, 111, 106, 101, 99, 116, 95, 99, 111, 108, 117, 109, 110>>,
      \* "project"
      Project |->
        <<112, 114, 111, 106, 101, 99, 116>>,
      \* "public"
      Public |->
        <<112, 117, 98, 108, 105, 99>>,
      \* "pull_request"
      PullRequest |->
        <<112, 117, 108, 108, 95, 114, 101, 113, 117, 101, 115, 116>>,
      \* "pull_request_review"
      PullRequestReview |->
        <<112, 117, 108, 108, 95, 114, 101, 113, 117, 101, 115, 116, 95, 114, 101, 118, 105, 101, 119>>,
      \* "pull_request_review_comment"
      PullRequestReviewComment |->
        <<112, 117, 108, 108, 95, 114, 101, 113, 117, 101, 115, 116, 95, 114, 101, 118, 105, 101, 119, 95, 99, 111, 109, 109, 101, 110, 116>>,
      \* "push"
      Push |->
        <<112, 117, 115, 104>>,
      \* "release"
      Release |->
        <<114, 101, 108, 101, 97, 115, 101>>,
      \* "repository"
      Repository |->
        <<114, 101, 112, 111, 115, 105, 116, 111, 114, 121>>,
      \* "repository_import"
      RepositoryImport |->
        <<114, 101, 112, 111, 115, 105, 116, 111, 114, 121, 95, 105, 109, 112, 111, 114, 116>>,
      \* "repository_vulnerability_alert"
      RepositoryVulnerabilityAlert |->
        <<114, 101, 112, 111, 115, 105, 116, 111, 114, 121, 95, 118, 117, 108, 110, 101, 114, 97, 98, 105, 108, 105, 116, 121, 95, 97, 108, 101, 114, 116>>,
      \* "security_advisory"
      SecurityAdvisory |->
        <<115, 101, 99, 117, 114, 105, 116, 121, 95, 97, 100, 118, 105, 115, 111, 114, 121>>,
      \* "status"
      Status |->
        <<115, 116, 97, 116, 117, 115>>,
      \* "team"
      Team |->
        <<116, 101, 97, 109>>,
      \* "team_add"
      TeamAdd |->
        <<116, 101, 97, 109, 95, 97, 100, 100>>,
      \* "watch"
      Watch |->
        <<119, 97, 116, 99, 104>> ]

\* name spelled by the snake_case rule from the identifier
EventTypeNameSnakeCase(v) == SnakeCase(EventTypeIdent[v])

\* EventType::name
EventTypeName(v) == EventTypeNameArms[v]

\* <EventType as Display>::fmt: f.write_str(self.name())
EventTypeDisplay(v) == EventTypeName(v)

\* the arms of the match in from_str, in their order, before the catch-all
FromStrArms ==
    <<
      \* "*"
      [pat |-> <<42>>,
       variant |-> "Wildcard"],
      \* "ping"
      [pat |-> <<112, 105, 110, 103>>,
       variant |-> "Ping"],
      \* "check_run"
      [pat |-> <<99, 104, 101, 99, 107, 95, 114, 117, 110>>,
       variant |-> "CheckRun"],
      \* "check_suite"
      [pat |-> <<99, 104, 101, 99, 107, 95, 115, 117, 105, 116, 101>>,
       variant |-> "CheckSuite"],
      \* "commit_comment"
      [pat |-> <<99, 111, 109, 109, 105, 116, 95, 99, 111, 109, 109, 101, 110, 116>>,
       variant |-> "CommitComment"],
      \* "content_reference"
      [pat |-> <<99, 111, 110, 116, 101, 110, 116, 95, 114, 101, 102, 101, 114, 101, 110, 99, 101>>,
       variant |-> "ContentReference"],
      \* "create"
      [pat |-> <<99, 114, 101, 97, 116, 101>>,
       variant |-> "Create"],
      \* "delete"
      [pat |-> <<100, 101, 108, 101, 116, 101>>,
       variant |-> "Delete"],
      \* "deployment"
      [pat |-> <<100, 101, 112, 108, 111, 121, 109, 101, 110, 116>>,
       variant |-> "Deployment"],
      \* "deployment_status"
      [pat |-> <<100, 101, 112, 108, 111, 121, 109, 101, 110, 116, 95, 115, 116, 97, 116, 117, 115>>,
       variant |-> "DeploymentStatus"],
      \* "fork"
      [pat |-> <<102, 111, 114, 107>>,
       variant |-> "Fork"],
      \* "github_app_authorization"
      [pat |-> <<103, 105, 116, 104, 117, 98, 95, 97, 112, 112, 95, 97, 117, 116, 104, 111, 114, 105, 122, 97, 116, 105, 111, 110>>,
       variant |-> "GitHubAppAuthorization"],
      \* "gollum"
      [pat |-> <<103, 111, 108, 108, 117, 109>>,
       variant |-> "Gollum"],
      \* "installation"
      [pat |-> <<105, 110, 115, 116, 97, 108, 108, 97, 116, 105, 111, 110>>,
       variant |-> "Installation"],
      \* "integration_installation"
      [pat |-> <<105, 110, 116, 101, 103, 114, 97, 116, 105, 111, 110, 95, 105, 110, 115, 116, 97, 108, 108, 97, 116, 105, 111, 110>>,
       variant |-> "IntegrationInstallation"],
      \* "installation_repositories"
      [pat |-> <<105, 110, 115, 116, 97, 108, 108, 97, 116, 105, 111, 110, 95, 114, 101, 112, 111, 115, 105, 116, 111, 114, 105, 101, 115>>,
       variant |-> "InstallationRepositories"],
      \* "integration_installation_repositories"
      [pat |-> <<105, 110, 116, 101, 103, 114, 97, 116, 105, 111, 110, 95, 105, 110, 115, 116, 97, 108, 108, 97, 116, 105, 111, 110, 95, 114, 101, 112, 111, 115, 105, 116, 111, 114, 105, 101, 115>>,
       variant |-> "IntegrationInstallationRepositories"],
      \* "issue_comment"
      [pat |-> <<105, 115, 115, 117, 101, 95, 99, 111, 109, 109, 101, 110, 116>>,
       variant |-> "IssueComment"],
      \* "issues"
      [pat |-> <<105, 115, 115, 117, 101, 115>>,
       variant |-> "Issues"],
      \* "label"
      [pat |-> <<108, 97, 98, 101, 108>>,
       variant |-> "Label"],
      \* "marketplace_purchase"
      [pat |-> <<109, 97, 114, 107, 101, 116, 112, 108, 97, 99, 101, 95, 112, 117, 114, 99, 104, 97, 115, 101>>,
       variant |-> "MarketplacePurchase"],
      \* "member"
      [pat |-> <<109, 101, 109, 98, 101, 114>>,
       variant |-> "Member"],
      \* "membership"
      [pat |-> <<109, 101, 109, 98, 101, 114, 115, 104, 105, 112>>,
       variant |-> "Membership"],
      \* "milestone"
      [pat |-> <<109, 105, 108, 101, 115, 116, 111, 110, 101>>,
       variant |-> "Milestone"],
      \* "organization"
      [pat |-> <<111, 114, 103, 97, 110, 105, 122, 97, 116, 105, 111, 110>>,
       variant |-> "Organization"],
      \* "org_block"
      [pat |-> <<111, 114, 103, 95, 98, 108, 111, 99, 107>>,
       variant |-> "OrgBlock"],
      \* "page_build"
      [pat |-> <<112, 97, 103, 101, 95, 98, 117, 105, 108, 100>>,
       variant |-> "PageBuild"],
      \* "project_card"
      [pat |-> <<112, 114, 111, 106, 101, 99, 116, 95, 99, 97, 114, 100>>,
       variant |-> "ProjectCard"],
      \* "project_column"
      [pat |-> <<112, 114, 111, 106, 101, 99, 116, 95, 99, 111, 108, 117, 109, 110>>,
       variant |-> "ProjectColumn"],
      \* "project"
      [pat |-> <<112, 114, 111, 106, 101, 99, 116>>,
       variant |-> "Project"],
      \* "public"
      [pat |-> <<112, 117, 98, 108, 105, 99>>,
       variant |-> "Public"],
      \* "pull_request"
      [pat |-> <<112, 117, 108, 108, 95, 114, 101, 113, 117, 101, 115, 116>>,
       variant |-> "PullRequest"],
      \* "pull_request_review_comment"
      [pat |-> <<112, 117, 108, 108, 95, 114, 101, 113, 117, 101, 115, 116, 95, 114, 101, 118, 105, 101, 119, 95, 99, 111, 109, 109, 101, 110, 116>>,
       variant |-> "PullRequestReviewComment"],
      \* "pull_request_review"
      [pat |-> <<112, 117, 108, 108, 95, 114, 101, 113, 117, 101, 115, 116, 95, 114, 101, 118, 105, 101, 119>>,
       variant |-> "PullRequestReview"],
      \* "push"
      [pat |-> <<112, 117, 115, 104>>,
       variant |-> "Push"],
      \* "release"
      [pat |-> <<114, 101, 108, 101, 97, 115, 101>>,
       variant |-> "Release"],
      \* "repository"
      [pat |-> <<114, 101, 112, 111, 115, 105, 116, 111, 114, 121>>,
       variant |-> "Repository"],
      \* "repository_import"
      [pat |-> <<114, 101, 112, 111, 115, 105, 116, 111, 114, 121, 95, 105, 109, 112, 111, 114, 116>>,
       variant |-> "RepositoryImport"],
      \* "repository_vulnerability_alert"
      [pat |-> <<114, 101, 112, 111, 115, 105, 116, 111, 114, 121, 95, 118, 117, 108, 110, 101, 114, 97, 98, 105, 108, 105, 116, 121, 95, 97, 108, 101, 114, 116>>,
       variant |-> "RepositoryVulnerabilityAlert"],
      \* "security_advisory"
      [pat |-> <<115, 101, 99, 117, 114, 105, 116, 121, 95, 97, 100, 118, 105, 115, 111, 114, 121>>,
       variant |-> "SecurityAdvisory"],
      \* "status"
      [pat |-> <<115, 116, 97, 116, 117, 115>>,
       variant |-> "Status"],
      \* "team"
      [pat |-> <<116, 101, 97, 109>>,
       variant |-> "Team"],
      \* "team_add"
      [pat |-> <<116, 101, 97, 109, 95, 97, 100, 100>>,
       variant |-> "TeamAdd"],
      \* "watch"
      [pat |-> <<119, 97, 116, 99, 104>>,
       variant |-> "Watch"] >>

\* <EventType as FromStr>::from_str: the first arm that matches
EventTypeFromStr(s) ==
    IF \E i \in 1..Len(FromStrArms) : FromStrArms[i].pat = s
    THEN Ok(FromStrArms[CHOOSE i \in 1..Len(FromStrArms) :
                           /\ FromStrArms[i].pat = s
                           /\ \A j \in 1..(i - 1) : FromStrArms[j].pat # s].variant)
    ELSE Err(Custom("invalid GitHub event", NoInt))

\* an event type to name, or a text to parse
OfVariant(v) == [kind |-> "variant", variant |-> v, text |-> <<>>]
OfText(s) == [kind |-> "text", variant |-> "", text |-> s]
\* the texts: every name, every name the derive knows, every identifier, the
\* empty text, and names with a character more or less
EventNameSamples ==
    {EventTypeName(v) : v \in EventType} \cup {SerdeVariantName(v) : v \in EventType}
        \cup {EventTypeIdent[v] : v \in EventType}
        \cup {<<>>, <<112, 105, 110>>, <<112, 105, 110, 103, 32>>}
        \cup {EventTypeName(v) \o <<115>> : v \in {"Issues", "Team", "Project"}}

InitEventType ==
    /\ input \in {OfVariant(v) : v \in EventType} \cup {OfText(s) : s \in EventNameSamples}
    /\ human = TRUE /\ dec = "none" /\ hint = "none" /\ enc = "none"
    /\ val = Pending /\ out = Pending /\ back = Pending
    /\ other = NoWire /\ oval = Pending /\ res = Pending /\ calls = <<>>

\* v.name()
CallName ==
    /\ input.kind = "variant"
    /\ out' = Returned(EventTypeName(input.variant))
    /\ UNCHANGED <<input, human, val, dec, hint, enc, back, other, oval, res, calls>>

\* v.to_string()
CallDisplay ==
    /\ input.kind = "variant"
    /\ res' = Returned(EventTypeDisplay(input.variant))
    /\ UNCHANGED <<input, human, val, dec, hint, out, enc, back, other, oval, calls>>

\* EventType::from_str(s)
CallFromStr ==
    /\ input.kind = "text"
    /\ val' = Returned(EventTypeFromStr(input.text))
    /\ UNCHANGED <<input, human, dec, hint, out, enc, back, other, oval, res, calls>>

\* EventType::from_str(v.name())
CallFromStrOfName ==
    /\ input.kind = "variant" /\ out.done
    /\ val' = Returned(EventTypeFromStr(out.ret[1]))
    /\ UNCHANGED <<input, human, dec, hint, out, enc, back, other, oval, res, calls>>

\* EventType::deserialize of the string s
CallDeserialize ==
    /\ input.kind = "text"
    /\ oval' = Returned(EventTypeDeserialize(StrWire(input.text)))
    /\ UNCHANGED <<input, human, val, dec, hint, out, enc, back, other, res, calls>>

\* EventType::deserialize of the string v.name()
CallDeserializeOfName ==
    /\ input.kind = "variant" /\ out.done
    /\ oval' = Returned(EventTypeDeserialize(StrWire(out.ret[1])))
    /\ UNCHANGED <<input, human, val, dec, hint, out, enc, back, other, res, calls>>

\* from_str(s).unwrap().name()
CallNameOfParsed ==
    /\ input.kind = "text" /\ val.done /\ val.ret[1].ok
    /\ back' = Returned(EventTypeName(val.ret[1].v[1]))
    /\ UNCHANGED <<input, human, val, dec, hint, out, enc, other, oval, res, calls>>

NextEventType ==
    \/ CallName
    \/ CallDisplay
    \/ CallFromStr
    \/ CallFromStrOfName
    \/ CallDeserialize
    \/ CallDeserializeOfName
    \/ CallNameOfParsed

SpecEventType == InitEventType /\ [][NextEventType]_vars

\* C27: the derived deserialization of EventType accepts exactly the strings
\* from_str accepts and maps each to the same variant; for every variant v the
\* string v.name() deserializes to v.
C27_DeriveAgreesWithFromStr ==
    /\ (val.done /\ oval.done) =>
          /\ val.ret[1].ok <=> oval.ret[1].ok
          /\ val.ret[1].v = oval.ret[1].v
    /\ (input.kind = "variant" /\ oval.done) => oval.ret[1] = Ok(input.variant)

\* C28: name and from_str are inverse on the event names: from_str(v.name())
\* is Ok(v) for every variant v, Display prints name, v.name() is s wherever
\* from_str(s) is Ok(v), and every other string is rejected with the error
\* "invalid GitHub event".
C28_NameInvertsFromStr ==
    /\ (input.kind = "variant" /\ val.done) => val.ret[1] = Ok(input.variant)
    /\ (input.kind = "variant" /\ out.done /\ res.done) => res.ret = out.ret
    /\ (input.kind = "text" /\ back.done) => back.ret[1] = input.text
    /\ (input.kind = "text" /\ val.done /\ ~val.ret[1].ok) =>
          /\ val.ret[1].err = Custom("invalid GitHub event", NoInt)
          /\ \A v \in EventType : EventTypeNameArms[v] # input.text
    /\ (input.kind = "text" /\ val.done /\ val.ret[1].ok) =>
          \E v \in EventType : EventTypeNameArms[v] = input.text

C28_Witness ==
    /\ input.kind = "variant" /\ input.variant = "GitHubAppAuthorization"
    /\ val.done /\ val.ret[1].ok /\ res.done /\ out.done

(***************************************************************************)
(* The ways of reading one string as an Oid, and of writing one Oid.       *)
(***************************************************************************)
\* <Oid as LowerHex>::fmt: self.write_hex(f)
OidLowerHex(b) == WriteHex(b)

\* <Oid as Display>::fmt: <Self as fmt::LowerHex>::fmt(self, f)
OidDisplay(b) == OidLowerHex(b)

\* Debug written through UpperHex
OidDebugUpperHex(b) == WriteHexUpper(b)

\* <Oid as Debug>::fmt: <Self as fmt::Display>::fmt(self, f)
OidDebug(b) == OidDisplay(b)

\* <Oid as Deref>::deref: &self.0
OidDeref(b) == b

\* what has been written of the Oid so far, by each way of writing it
NoViews ==
    [lower |-> NoWire, display |-> NoWire, debug |-> NoWire, deref |-> NoWire,
     text |-> NoWire, binary |-> NoWire]

ViewStrings ==
    OidStrPlain \cup OidStrPrefixed \cup {EmptyTreeHex, WriteHexUpper(EMPTY_TREE)}

InitOidView ==
    /\ input \in {StrWire(s) : s \in ViewStrings}
    /\ human = TRUE
    /\ val = NoVal /\ dec = "none" /\ hint = "none"
    /\ out = NoWire /\ enc = "none" /\ back = NoVal
    /\ other = NoWire /\ oval = NoVal /\ res = NoRes /\ calls = NoViews

\* Oid::from_hex(s)
FromHexView ==
    /\ dec = "none"
    /\ val' = OidFromHex(input.text)
    /\ dec' = "from_hex"
    /\ UNCHANGED <<input, human, hint, out, enc, back, other, oval, res, calls>>

\* OidVisitor.visit_str(s), on the same string
VisitStrView ==
    /\ oval = NoVal
    /\ oval' = OidVisitStr(input.text)
    /\ UNCHANGED <<input, human, val, dec, hint, out, enc, back, other, res, calls>>

\* format!("{:x}", oid)
ViewLowerHex ==
    /\ val.tag = "oid"
    /\ calls' = [calls EXCEPT !.lower = StrWire(OidLowerHex(val.oid))]
    /\ UNCHANGED <<input, human, val, dec, hint, out, enc, back, other, oval, res>>

\* format!("{}", oid)
ViewDisplay ==
    /\ val.tag = "oid"
    /\ calls' = [calls EXCEPT !.display = StrWire(OidDisplay(val.oid))]
    /\ UNCHANGED <<input, human, val, dec, hint, out, enc, back, other, oval, res>>

\* format!("{:?}", oid)
ViewDebug ==
    /\ val.tag = "oid"
    /\ calls' = [calls EXCEPT !.debug = StrWire(OidDebug(val.oid))]
    /\ UNCHANGED <<input, human, val, dec, hint, out, enc, back, other, oval, res>>

\* &*oid
ViewDeref ==
    /\ val.tag = "oid"
    /\ calls' = [calls EXCEPT !.deref = BytesWire(OidDeref(val.oid))]
    /\ UNCHANGED <<input, human, val, dec, hint, out, enc, back, other, oval, res>>

\* oid.serialize(serializer), the serializer human-readable
ViewSerializeText ==
    /\ val.tag = "oid"
    /\ calls' = [calls EXCEPT !.text = OidSerialize(val.oid, TRUE)]
    /\ UNCHANGED <<input, human, val, dec, hint, out, enc, back, other, oval, res>>

\* oid.serialize(serializer), the serializer binary
ViewSerializeBinary ==
    /\ val.tag = "oid"
    /\ calls' = [calls EXCEPT !.binary = OidSerialize(val.oid, FALSE)]
    /\ UNCHANGED <<input, human, val, dec, hint, out, enc, back, other, oval, res>>

NextOidView ==
    \/ FromHexView
    \/ VisitStrView
    \/ ViewLowerHex
    \/ ViewDisplay
    \/ ViewDebug
    \/ ViewDeref
    \/ ViewSerializeText
    \/ ViewSerializeBinary

SpecOidView == InitOidView /\ [][NextOidView]_vars

\* C29: from_hex and the string visitor agree on every string: one succeeds
\* exactly when the other does, and then both give the same 20 bytes; where
\* they fail, from_hex returns the unit error and the visitor the error that
\* tells the length or the character.
C29_FromHexAgreesWithVisitor ==
    (dec = "from_hex" /\ oval # NoVal) =>
        /\ val.tag = "oid" <=> oval.tag = "oid"
        /\ val.oid = oval.oid
        /\ val.tag = "oid" => Len(val.oid) = OidLen
        /\ val.tag # "oid" =>
              /\ val = Fail(UnitErr)
              /\ oval.tag = "err"
              /\ oval.err.kind \in {"invalid_length", "invalid_char"}

C29_Witness ==
    /\ dec = "from_hex" /\ oval # NoVal
    /\ val = Fail(UnitErr)
    /\ oval.err.kind = "invalid_char"
    /\ Len(input.text) = HexLen

\* C30: Display, Debug and LowerHex write the identical string for every Oid,
\* the string that human-readable serialization emits, and dereferencing the
\* Oid gives the 20 bytes that binary serialization emits.
C30_ViewsAgree ==
    /\ \A a, b \in {"lower", "display", "debug", "text"} :
          (calls[a] # NoWire /\ calls[b] # NoWire) =>
              /\ calls[a].shape = "str" /\ calls[b].shape = "str"
              /\ calls[a].text = calls[b].text
    /\ (calls.deref # NoWire /\ calls.binary # NoWire) =>
          /\ calls.binary.shape = "bytes"
          /\ calls.deref.bytes = calls.binary.bytes
          /\ Len(calls.deref.bytes) = OidLen

C30_Witness ==
    /\ \A a \in DOMAIN calls : calls[a] # NoWire
    /\ val.oid = EMPTY_TREE
    /\ calls.debug.text = EmptyTreeHex
    /\ input.text # EmptyTreeHex

====
